---- MODULE Spec2Model ----
(***************************************************************************)
(* A model of tinyquery's compiler (src/tinyquery/compiler.py): the step   *)
(* that turns the parser's syntax tree (tq_ast) into a typed, resolved     *)
(* plan (src/tinyquery/typed_ast.py).                                      *)
(*                                                                         *)
(* Representation.                                                         *)
(*  - A name (column id, alias, table qualifier) is the sequence of its    *)
(*    dot-free segments: "t1.value" is <<"t1", "value">>.  The Python      *)
(*    expression a + '.' + b is a \o b, and s.startswith(a + '.') is       *)
(*    "a is a proper prefix of s".  The name None is the empty sequence    *)
(*    (no identifier is empty).                                            *)
(*  - Every other Python None is the record PyNone.                        *)
(*  - A raised exception is an Error record that every caller propagates   *)
(*    in the order in which the Python code evaluates its operands.        *)
(*  - An OrderedDict is a sequence of entries with pairwise distinct keys. *)
(***************************************************************************)
EXTENDS Integers, Sequences, FiniteSets, TLC

None == <<>>
PyNone == [kind |-> "None"]

(***************************************************************************)
(* Exceptions.  exc is the Python exception class, what the spec's error   *)
(* kind (section 7).                                                       *)
(***************************************************************************)
Error(exc, what) == [kind |-> "Error", exc |-> exc, what |-> what]
CompileError(what) == Error("CompileError", what)
IsErr(v) == v.kind = "Error"
\* A raised exception leaves the body: the rest of it, K, runs on the value
\* of a call that returned.  The call is made once: value is what it gave.
Try(r, K(_)) ==
    CHOOSE out \in {IF IsErr(value) THEN value ELSE K(value) : value \in {r}} :
        TRUE

\* A list-valued result of a step that may raise.
Ok(v) == [kind |-> "Ok", val |-> v]

(***************************************************************************)
(* tq_types                                                                *)
(***************************************************************************)
BOOL == "BOOL"
INT == "INT"
FLOAT == "FLOAT"
TQ_STRING == "STRING"
NONETYPE == "NONETYPE"

(***************************************************************************)
(* tq_ast: the parser's output, as the parser tests construct it.          *)
(***************************************************************************)
AstLiteral(value) == [kind |-> "Literal", value |-> value]
ColumnId(name) == [kind |-> "ColumnId", name |-> name]
UnaryOperator(op, e) == [kind |-> "UnaryOperator", operator |-> op, expr |-> e]
BinaryOperator(op, l, r) ==
    [kind |-> "BinaryOperator", operator |-> op, left |-> l, right |-> r]
AstFunctionCall(name, args) ==
    [kind |-> "FunctionCall", name |-> name, args |-> args]
AstSelectField(e, alias) == [kind |-> "SelectField", expr |-> e, alias |-> alias]
Star == [kind |-> "Star"]
TableId(name, alias) == [kind |-> "TableId", name |-> name, alias |-> alias]
AstTableUnion(tables) == [kind |-> "TableUnion", tables |-> tables]
AstJoin(t1, t2, cond, outer) ==
    [kind |-> "Join", table1 |-> t1, table2 |-> t2, condition |-> cond,
     is_left_outer |-> outer, alias |-> None]
CrossJoin(t1, t2) ==
    [kind |-> "CrossJoin", table1 |-> t1, table2 |-> t2, alias |-> None]
AstSelect(fields, table_expr, where_expr, groups, limit, alias) ==
    [kind |-> "Select", select_fields |-> fields, table_expr |-> table_expr,
     where_expr |-> where_expr, groups |-> groups, limit |-> limit,
     alias |-> alias]
\* The GROUP BY list (a Python list of ColumnId, or None).
Groups(items) == [kind |-> "list", items |-> items]

\* Python values of literals: the class of the value and the value.
PyBool(b) == [py |-> "bool", b |-> b]
PyInt(n) == [py |-> "int", n |-> n]
PyFloat(s) == [py |-> "float", repr |-> s]
PyStr(s) == [py |-> "str", s |-> s]
PyNoneValue == [py |-> "NoneType"]

(***************************************************************************)
(* typed_ast                                                               *)
(***************************************************************************)
Select(select_fields, table, where_expr, group_set, limit, type_ctx) ==
    [kind |-> "Select", select_fields |-> select_fields, table |-> table,
     where_expr |-> where_expr, group_set |-> group_set, limit |-> limit,
     type_ctx |-> type_ctx]
SelectField(e, alias) == [kind |-> "SelectField", expr |-> e, alias |-> alias]
GroupSet(alias_groups, field_groups) ==
    [kind |-> "GroupSet", alias_groups |-> alias_groups,
     field_groups |-> field_groups]
TRIVIAL_GROUP_SET == GroupSet({}, <<>>)
Table(name, type_ctx) == [kind |-> "Table", name |-> name, type_ctx |-> type_ctx]
TableUnion(tables, type_ctx) ==
    [kind |-> "TableUnion", tables |-> tables, type_ctx |-> type_ctx]
Join(t1, t2, conditions, outer, type_ctx) ==
    [kind |-> "Join", table1 |-> t1, table2 |-> t2, conditions |-> conditions,
     is_left_outer |-> outer, type_ctx |-> type_ctx]
JoinFields(c1, c2) == [kind |-> "JoinFields", column1 |-> c1, column2 |-> c2]
FunctionCall(func, args, type) ==
    [kind |-> "FunctionCall", func |-> func, args |-> args, type |-> type]
AggregateFunctionCall(func, args, type) ==
    [kind |-> "AggregateFunctionCall", func |-> func, args |-> args,
     type |-> type]
Literal(value, type) == [kind |-> "Literal", value |-> value, type |-> type]
ColumnRef(table, column, type) ==
    [kind |-> "ColumnRef", table |-> table, column |-> column, type |-> type]
\* Select.with_type_ctx and Table.with_type_ctx
with_type_ctx(t, type_ctx) == [t EXCEPT !.type_ctx = type_ctx]


(***************************************************************************)
(* Sequence helpers                                                        *)
(***************************************************************************)
Range(s) == {s[i] : i \in 1..Len(s)}
\* s.startswith(prefix + '.') on dotted names
IsDottedPrefix(prefix, s) ==
    /\ Len(prefix) < Len(s)
    /\ SubSeq(s, 1, Len(prefix)) = prefix

(***************************************************************************)
(* OrderedDict of (table, column) -> type: a sequence of entries with      *)
(* distinct (table, column) keys, in insertion order.                      *)
(***************************************************************************)
Entry(table, column, type) == [table |-> table, column |-> column, type |-> type]
HasKey(od, table, column) ==
    \E i \in 1..Len(od) : od[i].table = table /\ od[i].column = column
\* od[(table, column)] = type: a present key keeps its position
OdSet(od, table, column, type) ==
    IF HasKey(od, table, column)
    THEN [i \in 1..Len(od) |->
            IF od[i].table = table /\ od[i].column = column
            THEN Entry(table, column, type) ELSE od[i]]
    ELSE Append(od, Entry(table, column, type))
RECURSIVE OdUpdateFrom(_, _, _)
OdUpdateFrom(od, other, i) ==
    IF i > Len(other) THEN od
    ELSE OdUpdateFrom(OdSet(od, other[i].table, other[i].column, other[i].type),
                      other, i + 1)
\* od.update(other)
OdUpdate(od, other) == OdUpdateFrom(od, other, 1)

(***************************************************************************)
(* runtime: the function registry.  Only its contract is used: a lookup    *)
(* by name, check_types(arg types) giving a result type or raising         *)
(* TypeError, and is_aggregate_func.                                       *)
(***************************************************************************)
Function(family, name) ==
    [kind |-> "Function", family |-> family, name |-> name]
NumericTypes == {INT, FLOAT}
ArithmeticOps == {"+", "-", "*", "/"}
ComparisonOps == {"=", "!=", "<", ">", "<=", ">="}
BooleanOps == {"and", "or"}
UnaryOps == {"-"}
AggregateFuncs == {"sum", "min", "max", "count"}
ScalarFuncs == {"abs", "pow", "now"}

TypeError == Error("TypeError", "TypeError")

get_unary_op(op) ==
    IF op \in UnaryOps THEN Function("unary", op)
    ELSE CompileError("UnknownFunction")
get_binary_op(op) ==
    IF op \in ArithmeticOps \cup ComparisonOps \cup BooleanOps
    THEN Function("binary", op)
    ELSE CompileError("UnknownFunction")
get_func(name) ==
    IF name \in AggregateFuncs \cup ScalarFuncs THEN Function("func", name)
    ELSE CompileError("UnknownFunction")
is_aggregate_func(name) == name \in AggregateFuncs

NumericResult(types) ==
    IF \A i \in 1..Len(types) : types[i] \in NumericTypes
    THEN Ok(IF \E i \in 1..Len(types) : types[i] = FLOAT THEN FLOAT ELSE INT)
    ELSE TypeError

\* func.check_types(*types): Ok(result type), or TypeError raised
check_types(func, types) ==
    IF func.family = "unary" THEN
        IF Len(types) = 1 THEN NumericResult(types) ELSE TypeError
    ELSE IF func.family = "binary" THEN
        IF Len(types) # 2 THEN TypeError
        ELSE IF func.name \in ArithmeticOps THEN NumericResult(types)
        ELSE IF func.name \in ComparisonOps THEN
            IF types[1] = types[2] \/ Range(types) \subseteq NumericTypes
            THEN Ok(BOOL) ELSE TypeError
        ELSE IF types[1] = BOOL /\ types[2] = BOOL THEN Ok(BOOL)
        ELSE TypeError
    ELSE IF func.name \in {"sum", "abs"} THEN
        IF Len(types) = 1 THEN NumericResult(types) ELSE TypeError
    ELSE IF func.name \in {"min", "max"} THEN
        IF Len(types) = 1 THEN Ok(types[1]) ELSE TypeError
    ELSE IF func.name = "count" THEN
        IF Len(types) = 1 THEN Ok(INT) ELSE TypeError
    ELSE IF func.name = "pow" THEN
        IF Len(types) = 2 THEN NumericResult(types) ELSE TypeError
    ELSE IF Len(types) = 0 THEN Ok(INT)
    ELSE TypeError

(***************************************************************************)
(* type_context.TypeContext: the scope context of section 4.1.             *)
(***************************************************************************)
TypeContext(columns, implicit_column_context, aggregate_context) ==
    [kind |-> "TypeContext", columns |-> columns,
     implicit_column_context |-> implicit_column_context,
     aggregate_context |-> aggregate_context]

DistinctKeys(columns) ==
    \A i, j \in 1..Len(columns) :
        (columns[i].table = columns[j].table
         /\ columns[i].column = columns[j].column) => i = j

\* Build from columns: the same (qualifier, name) pair twice is an error.
from_full_columns(full_columns, implicit_column_context, aggregate_context) ==
    IF DistinctKeys(full_columns)
    THEN TypeContext(full_columns, implicit_column_context, aggregate_context)
    ELSE CompileError("Ambiguous")

\* columns_without_table: a sequence of [column, type]
from_table_and_columns(table_name, columns_without_table, implicit_column_context, aggregate_context) ==
    from_full_columns(
        [i \in 1..Len(columns_without_table) |->
            Entry(table_name, columns_without_table[i].column,
                  columns_without_table[i].type)],
        implicit_column_context, aggregate_context)

\* The entries a possibly dot-qualified name matches: the exact
\* (qualifier, name) pair, or an entry whose unqualified name equals it.
MatchingEntries(ctx, name) ==
    {i \in 1..Len(ctx.columns) :
        \/ ctx.columns[i].column = name
        \/ /\ ctx.columns[i].table # None
           /\ ctx.columns[i].table \o ctx.columns[i].column = name}

RECURSIVE column_ref_for_name(_, _)
column_ref_for_name(ctx, name) ==
    LET matches == MatchingEntries(ctx, name) IN
    IF Cardinality(matches) = 1 THEN
        LET e == ctx.columns[CHOOSE i \in matches : TRUE]
        IN ColumnRef(e.table, e.column, e.type)
    ELSE IF Cardinality(matches) > 1 THEN CompileError("Ambiguous")
    ELSE IF ctx.implicit_column_context # PyNone
    THEN column_ref_for_name(ctx.implicit_column_context, name)
    ELSE CompileError("NotFound")

\* Alias-qualify: every entry's qualifier is overwritten with the alias.
context_with_full_alias(ctx, alias) ==
    from_full_columns(
        [i \in 1..Len(ctx.columns) |->
            Entry(alias, ctx.columns[i].column, ctx.columns[i].type)],
        PyNone, PyNone)

\* Subquery alias: bare column names remain directly reachable; the alias
\* additionally exposes alias.column.
context_with_subquery_alias(ctx, alias) ==
    Try(from_full_columns(
            [i \in 1..Len(ctx.columns) |->
                Entry(alias, ctx.columns[i].column, ctx.columns[i].type)],
            PyNone, PyNone),
        LAMBDA aliased : TypeContext(ctx.columns, aliased, ctx.aggregate_context))

\* Join: concatenate both sides' entries, keeping their qualifiers.
join_contexts(contexts) ==
    from_full_columns(contexts[1].columns \o contexts[2].columns,
                      PyNone, PyNone)

\* Union: the unqualified column names, in order of first appearance; a
\* name's type must be the same in all inputs.
RECURSIVE UnionColumns(_, _, _)
UnionColumns(result, columns, i) ==
    IF i > Len(columns) THEN Ok(result)
    ELSE IF HasKey(result, None, columns[i].column) THEN
        IF \E k \in 1..Len(result) :
               /\ result[k].column = columns[i].column
               /\ result[k].type # columns[i].type
        THEN CompileError("TypeError")
        ELSE UnionColumns(result, columns, i + 1)
    ELSE UnionColumns(Append(result, Entry(None, columns[i].column,
                                           columns[i].type)),
                      columns, i + 1)
RECURSIVE UnionFrom(_, _, _)
UnionFrom(result, contexts, k) ==
    IF k > Len(contexts) THEN Ok(result)
    ELSE Try(UnionColumns(result, contexts[k].columns, 1),
             LAMBDA r : UnionFrom(r.val, contexts, k + 1))
union_contexts(contexts) ==
    Try(UnionFrom(<<>>, contexts, 1),
        LAMBDA r : from_full_columns(r.val, PyNone, PyNone))

(***************************************************************************)
(* The catalog (tables_by_name) and the parser's view of the views' text.  *)
(***************************************************************************)
Column(name, type) == [column |-> name, type |-> type]
CatalogTable(name, columns) == [kind |-> "Table", name |-> name, columns |-> columns]
CatalogView(name, query) == [kind |-> "View", name |-> name, query |-> query]

ViewText == "SELECT value + 1 AS foo FROM table1"
ViewText2 == "SELECT value, value2 AS s FROM table1"
ViewText3 == "SELECT foo FROM view1"
\* Views that refer to themselves, directly or through another view
LoopText1 == "SELECT * FROM loop1"
LoopText2 == "SELECT value FROM loop3"
LoopText3 == "SELECT value FROM loop2 l"
LoopText4 == "SELECT 1 AS one FROM (SELECT nosuch FROM table1) s CROSS JOIN loop4"
LoopText5 == "SELECT value FROM table1, loop5"

tables_by_name ==
    [name \in {<<"table1">>, <<"table2">>, <<"view1">>, <<"view2">>,
               <<"view3">>, <<"loop1">>, <<"loop2">>, <<"loop3">>,
               <<"loop4">>, <<"loop5">>} |->
        CASE name = <<"table1">> ->
                CatalogTable(name,
                    <<Column(<<"value">>, INT), Column(<<"value2">>, TQ_STRING)>>)
          [] name = <<"table2">> ->
                CatalogTable(name,
                    <<Column(<<"value">>, INT), Column(<<"value3">>, FLOAT)>>)
          [] name = <<"view1">> -> CatalogView(name, ViewText)
          [] name = <<"view2">> -> CatalogView(name, ViewText2)
          [] name = <<"view3">> -> CatalogView(name, ViewText3)
          [] name = <<"loop1">> -> CatalogView(name, LoopText1)
          [] name = <<"loop2">> -> CatalogView(name, LoopText2)
          [] name = <<"loop3">> -> CatalogView(name, LoopText3)
          [] name = <<"loop4">> -> CatalogView(name, LoopText4)
          [] name = <<"loop5">> -> CatalogView(name, LoopText5)]

\* parser.parse_text on the texts the catalog's views hold
parse_text(text) ==
    CASE text = ViewText ->
            AstSelect(<<AstSelectField(BinaryOperator("+", ColumnId(<<"value">>),
                                                      AstLiteral(PyInt(1))),
                                       <<"foo">>)>>,
                      TableId(<<"table1">>, None), PyNone, PyNone, PyNone, None)
      [] text = ViewText2 ->
            AstSelect(<<AstSelectField(ColumnId(<<"value">>), None),
                        AstSelectField(ColumnId(<<"value2">>), <<"s">>)>>,
                      TableId(<<"table1">>, None), PyNone, PyNone, PyNone, None)
      [] text = ViewText3 ->
            AstSelect(<<AstSelectField(ColumnId(<<"foo">>), None)>>,
                      TableId(<<"view1">>, None), PyNone, PyNone, PyNone, None)
      [] text = LoopText1 ->
            AstSelect(<<Star>>, TableId(<<"loop1">>, None),
                      PyNone, PyNone, PyNone, None)
      [] text = LoopText2 ->
            AstSelect(<<AstSelectField(ColumnId(<<"value">>), None)>>,
                      TableId(<<"loop3">>, None), PyNone, PyNone, PyNone, None)
      [] text = LoopText3 ->
            AstSelect(<<AstSelectField(ColumnId(<<"value">>), None)>>,
                      TableId(<<"loop2">>, <<"l">>), PyNone, PyNone, PyNone,
                      None)
      [] text = LoopText4 ->
            AstSelect(<<AstSelectField(AstLiteral(PyInt(1)), <<"one">>)>>,
                      CrossJoin(
                          AstSelect(<<AstSelectField(ColumnId(<<"nosuch">>),
                                                     None)>>,
                                    TableId(<<"table1">>, None), PyNone, PyNone,
                                    PyNone, <<"s">>),
                          TableId(<<"loop4">>, None)),
                      PyNone, PyNone, PyNone, None)
      [] text = LoopText5 ->
            AstSelect(<<AstSelectField(ColumnId(<<"value">>), None)>>,
                      AstTableUnion(<<TableId(<<"table1">>, None),
                                      TableId(<<"loop5">>, None)>>),
                      PyNone, PyNone, PyNone, None)

(***************************************************************************)
(* Compiler                                                                *)
(***************************************************************************)
NoTable == [kind |-> "NoTable", type_ctx |-> from_full_columns(<<>>, PyNone, PyNone)]

\* Compiler.field_alias
field_alias(select_field) ==
    IF select_field.alias # None THEN select_field.alias
    ELSE IF select_field.expr.kind = "ColumnId" THEN select_field.expr.name
    ELSE None

\* 'f%s_' % generic_field_num
GenericAlias(generic_field_num) == <<"f" \o ToString(generic_field_num) \o "_">>

\* NextGenericNum without the while loop that skips used aliases
NextGenericNum_NoSkip(generic_field_num, used_aliases) == generic_field_num

\* while ('f%s_' % generic_field_num) in used_aliases: generic_field_num += 1
RECURSIVE NextGenericNum(_, _)
NextGenericNum(generic_field_num, used_aliases) ==
    IF GenericAlias(generic_field_num) \in used_aliases
    THEN NextGenericNum(generic_field_num + 1, used_aliases)
    ELSE generic_field_num

\* HasAmbiguousAlias without used_aliases.add(alias)
RECURSIVE HasAmbiguousAlias_NoAdd(_, _, _)
HasAmbiguousAlias_NoAdd(proposed_aliases, used_aliases, i) ==
    IF i > Len(proposed_aliases) THEN FALSE
    ELSE IF proposed_aliases[i] = None
    THEN HasAmbiguousAlias_NoAdd(proposed_aliases, used_aliases, i + 1)
    ELSE IF proposed_aliases[i] \in used_aliases THEN TRUE
    ELSE HasAmbiguousAlias_NoAdd(proposed_aliases, used_aliases, i + 1)

\* The first loop of get_aliases: TRUE iff it raises.
RECURSIVE HasAmbiguousAlias(_, _, _)
HasAmbiguousAlias(proposed_aliases, used_aliases, i) ==
    IF i > Len(proposed_aliases) THEN FALSE
    ELSE IF proposed_aliases[i] = None
    THEN HasAmbiguousAlias(proposed_aliases, used_aliases, i + 1)
    ELSE IF proposed_aliases[i] \in used_aliases THEN TRUE
    ELSE HasAmbiguousAlias(proposed_aliases,
                           used_aliases \cup {proposed_aliases[i]}, i + 1)

\* The second loop of get_aliases.
RECURSIVE AssignAliases(_, _, _, _, _)
AssignAliases(proposed_aliases, used_aliases, generic_field_num, result, i) ==
    IF i > Len(proposed_aliases) THEN result
    ELSE IF proposed_aliases[i] # None
    THEN AssignAliases(proposed_aliases, used_aliases, generic_field_num,
                       Append(result, proposed_aliases[i]), i + 1)
    ELSE LET n == NextGenericNum(generic_field_num, used_aliases)
         IN AssignAliases(proposed_aliases, used_aliases, n + 1,
                          Append(result, GenericAlias(n)), i + 1)

\* Compiler.get_aliases
get_aliases(select_field_list) ==
    LET proposed_aliases == [i \in 1..Len(select_field_list) |->
                                field_alias(select_field_list[i])]
        used_aliases == {proposed_aliases[i] : i \in 1..Len(proposed_aliases)}
                            \ {None}
    IN IF HasAmbiguousAlias(proposed_aliases, {}, 1)
       THEN CompileError("Ambiguous")
       ELSE Ok(AssignAliases(proposed_aliases, used_aliases, 0, <<>>, 1))

\* expression_contains_aggregate that forgets the right operand
RECURSIVE expression_contains_aggregate_LeftOnly(_)
expression_contains_aggregate_LeftOnly(expr) ==
    IF expr.kind = "UnaryOperator"
    THEN expression_contains_aggregate_LeftOnly(expr.expr)
    ELSE IF expr.kind = "BinaryOperator"
    THEN expression_contains_aggregate_LeftOnly(expr.left)
    ELSE IF expr.kind = "FunctionCall"
    THEN \/ is_aggregate_func(expr.name)
         \/ \E i \in 1..Len(expr.args) :
                expression_contains_aggregate_LeftOnly(expr.args[i])
    ELSE FALSE

\* Compiler.expression_contains_aggregate
RECURSIVE expression_contains_aggregate(_)
expression_contains_aggregate(expr) ==
    IF expr.kind = "UnaryOperator"
    THEN expression_contains_aggregate(expr.expr)
    ELSE IF expr.kind = "BinaryOperator"
    THEN \/ expression_contains_aggregate(expr.left)
         \/ expression_contains_aggregate(expr.right)
    ELSE IF expr.kind = "FunctionCall"
    THEN \/ is_aggregate_func(expr.name)
         \/ \E i \in 1..Len(expr.args) :
                expression_contains_aggregate(expr.args[i])
    ELSE FALSE

\* is_innermost_aggregate that does not look into the arguments
is_innermost_aggregate_AnyAggregate(expr) ==
    /\ expr.kind = "FunctionCall"
    /\ is_aggregate_func(expr.name)

\* Compiler.is_innermost_aggregate
is_innermost_aggregate(expr) ==
    /\ expr.kind = "FunctionCall"
    /\ is_aggregate_func(expr.name)
    /\ ~ \E i \in 1..Len(expr.args) :
            expression_contains_aggregate(expr.args[i])

\* Compiler.compile_ColumnId
compile_ColumnId(expr, type_ctx) == column_ref_for_name(type_ctx, expr.name)

\* compile_Literal that tests int first: a bool is an instance of int
compile_Literal_IntFirst(expr, type_ctx) ==
    IF expr.value.py \in {"int", "bool"} THEN Literal(expr.value, INT)
    ELSE IF expr.value.py = "bool" THEN Literal(expr.value, BOOL)
    ELSE IF expr.value.py = "float" THEN Literal(expr.value, FLOAT)
    ELSE IF expr.value.py = "str" THEN Literal(expr.value, TQ_STRING)
    ELSE IF expr.value.py = "NoneType" THEN Literal(expr.value, NONETYPE)
    ELSE Error("NotImplementedError", "Unrecognized type")

\* Compiler.compile_Literal: bool is tested before int, of which it is a
\* subclass.
compile_Literal(expr, type_ctx) ==
    IF expr.value.py = "bool" THEN Literal(expr.value, BOOL)
    ELSE IF expr.value.py \in {"int", "bool"} THEN Literal(expr.value, INT)
    ELSE IF expr.value.py = "float" THEN Literal(expr.value, FLOAT)
    ELSE IF expr.value.py = "str" THEN Literal(expr.value, TQ_STRING)
    ELSE IF expr.value.py = "NoneType" THEN Literal(expr.value, NONETYPE)
    ELSE Error("NotImplementedError", "Unrecognized type")

RECURSIVE compile_expr(_, _)
RECURSIVE compile_args(_, _, _, _)

\* Compiler.compile_UnaryOperator: a TypeError of check_types is not caught.
compile_UnaryOperator(expr, type_ctx) ==
    Try(get_unary_op(expr.operator), LAMBDA func :
    Try(compile_expr(expr.expr, type_ctx), LAMBDA compiled_val :
    Try(check_types(func, <<compiled_val.type>>), LAMBDA result_type :
    FunctionCall(func, <<compiled_val>>, result_type.val))))

\* Compiler.compile_BinaryOperator: a TypeError of check_types is not caught.
compile_BinaryOperator(expr, type_ctx) ==
    Try(get_binary_op(expr.operator), LAMBDA func :
    Try(compile_expr(expr.left, type_ctx), LAMBDA compiled_left :
    Try(compile_expr(expr.right, type_ctx), LAMBDA compiled_right :
    Try(check_types(func, <<compiled_left.type, compiled_right.type>>),
        LAMBDA result_type :
    FunctionCall(func, <<compiled_left, compiled_right>>, result_type.val)))))

\* [self.compile_expr(sub_expr, sub_expr_ctx) for sub_expr in expr.args]
compile_args(args, sub_expr_ctx, compiled_args, i) ==
    IF i > Len(args) THEN Ok(compiled_args)
    ELSE Try(compile_expr(args[i], sub_expr_ctx), LAMBDA arg :
             compile_args(args, sub_expr_ctx, Append(compiled_args, arg),
                          i + 1))

\* compile_FunctionCall that compiles the arguments of an innermost aggregate
\* against the current context
compile_FunctionCall_CurrentCtx(expr, type_ctx) ==
    LET innermost == is_innermost_aggregate(expr)
        \* except TypeError: raise CompileError
        Typed(func, compiled_args, result_type) ==
            IF IsErr(result_type) THEN CompileError("TypeError")
            ELSE IF innermost
            THEN AggregateFunctionCall(func, compiled_args, result_type.val)
            ELSE FunctionCall(func, compiled_args, result_type.val)
    IN IF innermost /\ type_ctx.aggregate_context = PyNone
       THEN CompileError("UnboundAggregate") ELSE
       Try(get_func(expr.name), LAMBDA func :
       Try(compile_args(expr.args, type_ctx, <<>>, 1), LAMBDA compiled_args :
       Typed(func, compiled_args.val,
             check_types(func, [i \in 1..Len(compiled_args.val) |->
                                   compiled_args.val[i].type]))))

\* compile_FunctionCall that compiles an innermost aggregate against the
\* current context when there is no aggregate context
compile_FunctionCall_FallbackCtx(expr, type_ctx) ==
    LET innermost == is_innermost_aggregate(expr)
        sub_expr_ctx == IF innermost /\ type_ctx.aggregate_context # PyNone
                        THEN type_ctx.aggregate_context
                        ELSE type_ctx
        Typed(func, compiled_args, result_type) ==
            IF IsErr(result_type) THEN CompileError("TypeError")
            ELSE IF innermost
            THEN AggregateFunctionCall(func, compiled_args, result_type.val)
            ELSE FunctionCall(func, compiled_args, result_type.val)
    IN Try(get_func(expr.name), LAMBDA func :
       Try(compile_args(expr.args, sub_expr_ctx, <<>>, 1), LAMBDA compiled_args :
       Typed(func, compiled_args.val,
             check_types(func, [i \in 1..Len(compiled_args.val) |->
                                   compiled_args.val[i].type]))))

\* compile_FunctionCall that makes an aggregate-call node of every call of
\* an aggregate function
compile_FunctionCall_AggregateByName(expr, type_ctx) ==
    LET innermost == is_innermost_aggregate(expr)
        sub_expr_ctx == IF innermost THEN type_ctx.aggregate_context
                        ELSE type_ctx
        Typed(func, compiled_args, result_type) ==
            IF IsErr(result_type) THEN CompileError("TypeError")
            ELSE IF is_aggregate_func(expr.name)
            THEN AggregateFunctionCall(func, compiled_args, result_type.val)
            ELSE FunctionCall(func, compiled_args, result_type.val)
    IN IF innermost /\ type_ctx.aggregate_context = PyNone
       THEN CompileError("UnboundAggregate") ELSE
       Try(get_func(expr.name), LAMBDA func :
       Try(compile_args(expr.args, sub_expr_ctx, <<>>, 1), LAMBDA compiled_args :
       Typed(func, compiled_args.val,
             check_types(func, [i \in 1..Len(compiled_args.val) |->
                                   compiled_args.val[i].type]))))

\* Compiler.compile_FunctionCall
compile_FunctionCall(expr, type_ctx) ==
    LET innermost == is_innermost_aggregate(expr)
        sub_expr_ctx == IF innermost THEN type_ctx.aggregate_context
                        ELSE type_ctx
        \* except TypeError: raise CompileError
        Typed(func, compiled_args, result_type) ==
            IF IsErr(result_type) THEN CompileError("TypeError")
            ELSE IF innermost
            THEN AggregateFunctionCall(func, compiled_args, result_type.val)
            ELSE FunctionCall(func, compiled_args, result_type.val)
    IN IF innermost /\ type_ctx.aggregate_context = PyNone
       THEN CompileError("UnboundAggregate") ELSE
       Try(get_func(expr.name), LAMBDA func :
       Try(compile_args(expr.args, sub_expr_ctx, <<>>, 1), LAMBDA compiled_args :
       Typed(func, compiled_args.val,
             check_types(func, [i \in 1..Len(compiled_args.val) |->
                                   compiled_args.val[i].type]))))

\* Compiler.compile_expr: dispatch on the class of the node
compile_expr(expr, type_ctx) ==
    IF expr.kind = "Literal" THEN compile_Literal(expr, type_ctx)
    ELSE IF expr.kind = "ColumnId" THEN compile_ColumnId(expr, type_ctx)
    ELSE IF expr.kind = "UnaryOperator" THEN compile_UnaryOperator(expr, type_ctx)
    ELSE IF expr.kind = "BinaryOperator"
    THEN compile_BinaryOperator(expr, type_ctx)
    ELSE IF expr.kind = "FunctionCall" THEN compile_FunctionCall(expr, type_ctx)
    ELSE Error("NotImplementedError", "Missing handler")

\* compile_where_expr with the literal 1 for a missing WHERE
compile_where_expr_LiteralOne(where_expr, table_ctx) ==
    IF where_expr # PyNone THEN compile_expr(where_expr, table_ctx)
    ELSE Literal(PyInt(1), INT)

\* compile_where_expr that drops a filter with a name it cannot find
compile_where_expr_IgnoreNotFound(where_expr, table_ctx) ==
    IF where_expr = PyNone
        \/ compile_expr(where_expr, table_ctx) = CompileError("NotFound")
    THEN Literal(PyBool(TRUE), BOOL)
    ELSE compile_expr(where_expr, table_ctx)

\* Compiler.compile_where_expr
compile_where_expr(where_expr, table_ctx) ==
    IF where_expr # PyNone THEN compile_expr(where_expr, table_ctx)
    ELSE Literal(PyBool(TRUE), BOOL)

\* Compiler.compile_select_field
compile_select_field(expr, alias, type_ctx) ==
    Try(compile_expr(expr, type_ctx),
        LAMBDA compiled_expr : SelectField(compiled_expr, alias))

\* expand_select_fields that puts the columns of the stars after the fields
\* that were written
expand_select_fields_StarsLast(select_fields, table_expr) ==
    LET columns == table_expr.type_ctx.columns
        star_select_fields ==
            [i \in 1..Len(columns) |->
                AstSelectField(
                    ColumnId(IF columns[i].table # None
                             THEN columns[i].table \o columns[i].column
                             ELSE columns[i].column),
                    IF table_expr.kind = "Join"
                    THEN columns[i].table \o columns[i].column
                    ELSE columns[i].column)]
        IsField(field) == field.kind # "Star"
        Stars[i \in 0..Len(select_fields)] ==
            IF i = 0 THEN <<>>
            ELSE IF select_fields[i].kind = "Star"
            THEN Stars[i - 1] \o star_select_fields
            ELSE Stars[i - 1]
    IN Ok(SelectSeq(select_fields, IsField) \o Stars[Len(select_fields)])

\* Compiler.expand_select_fields.  The star fields are built whether or not
\* the select list holds a star.
expand_select_fields(select_fields, table_expr) ==
    LET columns == table_expr.type_ctx.columns
        star_select_fields ==
            [i \in 1..Len(columns) |->
                LET table_name == columns[i].table
                    col_name == columns[i].column
                    col_ref == IF table_name # None THEN table_name \o col_name
                               ELSE col_name
                    alias == IF table_expr.kind = "Join"
                             THEN table_name \o col_name ELSE col_name
                IN AstSelectField(ColumnId(col_ref), alias)]
        Expand[i \in 0..Len(select_fields)] ==
            IF i = 0 THEN <<>>
            ELSE IF select_fields[i].kind = "Star"
            THEN Expand[i - 1] \o star_select_fields
            ELSE Append(Expand[i - 1], select_fields[i])
    IN IF /\ table_expr.kind = "Join"
          /\ \E i \in 1..Len(columns) : columns[i].table = None
       THEN Error("TypeError", "None + str")
       ELSE Ok(Expand[Len(select_fields)])

\* ClassifyGroups that looks a name up in the table context first and takes
\* it for an alias only when it is no column
RECURSIVE ClassifyGroups_ColumnFirst(_, _, _, _, _, _)
ClassifyGroups_ColumnFirst(groups, alias_set, table_ctx, alias_groups, field_groups, i) ==
    IF i > Len(groups) THEN GroupSet(alias_groups, field_groups)
    ELSE LET ref == column_ref_for_name(table_ctx, groups[i].name)
         IN IF ~IsErr(ref)
            THEN ClassifyGroups_ColumnFirst(groups, alias_set, table_ctx,
                    alias_groups, Append(field_groups, ref), i + 1)
            ELSE IF groups[i].name \in alias_set
            THEN ClassifyGroups_ColumnFirst(groups, alias_set, table_ctx,
                    alias_groups \cup {groups[i].name}, field_groups, i + 1)
            ELSE ref

\* The GROUP BY loop of compile_groups.
RECURSIVE ClassifyGroups(_, _, _, _, _, _)
ClassifyGroups(groups, alias_set, table_ctx, alias_groups, field_groups, i) ==
    IF i > Len(groups) THEN GroupSet(alias_groups, field_groups)
    ELSE IF groups[i].name \in alias_set
    THEN ClassifyGroups(groups, alias_set, table_ctx,
                        alias_groups \cup {groups[i].name}, field_groups, i + 1)
    ELSE Try(column_ref_for_name(table_ctx, groups[i].name), LAMBDA ref :
             ClassifyGroups(groups, alias_set, table_ctx, alias_groups,
                            Append(field_groups, ref), i + 1))

\* Compiler.compile_groups
compile_groups(groups, select_fields, aliases, table_ctx) ==
    IF groups = PyNone THEN
        LET is_aggregate_select ==
                \E i \in 1..Len(select_fields) :
                    expression_contains_aggregate(select_fields[i].expr)
        IN IF is_aggregate_select THEN TRIVIAL_GROUP_SET ELSE PyNone
    ELSE ClassifyGroups(groups.items, Range(aliases), table_ctx, {}, <<>>, 1)

\* compiled_field_dict[alias] = field, on an OrderedDict keyed by alias
FieldDictSet(compiled_field_dict, field) ==
    IF \E i \in 1..Len(compiled_field_dict) :
           compiled_field_dict[i].alias = field.alias
    THEN [i \in 1..Len(compiled_field_dict) |->
            IF compiled_field_dict[i].alias = field.alias THEN field
            ELSE compiled_field_dict[i]]
    ELSE Append(compiled_field_dict, field)
\* compiled_field_dict[alias]
FieldDictGet(compiled_field_dict, alias) ==
    compiled_field_dict[CHOOSE i \in 1..Len(compiled_field_dict) :
                            compiled_field_dict[i].alias = alias]

\* The select-field loop of compile_group_fields.
RECURSIVE GroupFieldsLoop(_, _, _, _, _, _, _)
GroupFieldsLoop(select_fields, aliases, group_set, table_ctx, compiled_field_dict, group_columns, i) ==
    IF i > Len(select_fields)
    THEN [kind |-> "Ok", compiled_field_dict |-> compiled_field_dict,
          group_columns |-> group_columns]
    ELSE IF group_set = PyNone \/ aliases[i] \in group_set.alias_groups THEN
        Try(compile_select_field(select_fields[i].expr, aliases[i], table_ctx),
            LAMBDA field :
            GroupFieldsLoop(select_fields, aliases, group_set, table_ctx,
                FieldDictSet(compiled_field_dict, field),
                OdSet(group_columns, None, aliases[i], field.expr.type),
                i + 1))
    ELSE GroupFieldsLoop(select_fields, aliases, group_set, table_ctx,
                         compiled_field_dict, group_columns, i + 1)

\* compile_group_fields that passes table_ctx as the implicit column context
\* of the aggregate context
compile_group_fields_ImplicitTable(select_fields, aliases, group_set, table_ctx) ==
    LET field_group_columns ==
            IF group_set # PyNone
            THEN OdUpdate(<<>>, [i \in 1..Len(group_set.field_groups) |->
                    Entry(group_set.field_groups[i].table,
                          group_set.field_groups[i].column,
                          group_set.field_groups[i].type)])
            ELSE <<>>
    IN Try(GroupFieldsLoop(select_fields, aliases, group_set, table_ctx,
                           <<>>, field_group_columns, 1), LAMBDA loop :
       Try(from_full_columns(loop.group_columns, table_ctx, table_ctx),
           LAMBDA aggregate_context :
       [kind |-> "Ok", compiled_field_dict |-> loop.compiled_field_dict,
        aggregate_context |-> aggregate_context]))

\* compile_group_fields that starts group_columns from the table's columns
compile_group_fields_TableColumns(select_fields, aliases, group_set, table_ctx) ==
    Try(GroupFieldsLoop(select_fields, aliases, group_set, table_ctx,
                        <<>>, table_ctx.columns, 1), LAMBDA loop :
    Try(from_full_columns(loop.group_columns, PyNone, table_ctx),
        LAMBDA aggregate_context :
    [kind |-> "Ok", compiled_field_dict |-> loop.compiled_field_dict,
     aggregate_context |-> aggregate_context]))

\* Compiler.compile_group_fields
compile_group_fields(select_fields, aliases, group_set, table_ctx) ==
    LET field_group_columns ==
            IF group_set # PyNone
            THEN OdUpdate(<<>>, [i \in 1..Len(group_set.field_groups) |->
                    Entry(group_set.field_groups[i].table,
                          group_set.field_groups[i].column,
                          group_set.field_groups[i].type)])
            ELSE <<>>
    IN Try(GroupFieldsLoop(select_fields, aliases, group_set, table_ctx,
                           <<>>, field_group_columns, 1), LAMBDA loop :
       Try(from_full_columns(loop.group_columns, PyNone, table_ctx),
           LAMBDA aggregate_context :
       [kind |-> "Ok", compiled_field_dict |-> loop.compiled_field_dict,
        aggregate_context |-> aggregate_context]))

\* find_column_references that does not look into the arguments of a call
find_column_references_TopLevel(expr) ==
    IF expr.kind = "ColumnRef"
    THEN <<Entry(expr.table, expr.column, expr.type)>>
    ELSE <<>>

\* Compiler.find_column_references
RECURSIVE find_column_references(_)
RECURSIVE ArgsColumnReferences(_, _, _)
ArgsColumnReferences(args, result, i) ==
    IF i > Len(args) THEN result
    ELSE ArgsColumnReferences(args,
            OdUpdate(result, find_column_references(args[i])), i + 1)
find_column_references(expr) ==
    IF expr.kind \in {"FunctionCall", "AggregateFunctionCall"}
    THEN ArgsColumnReferences(expr.args, <<>>, 1)
    ELSE IF expr.kind = "ColumnRef"
    THEN <<Entry(expr.table, expr.column, expr.type)>>
    ELSE <<>>

\* Compiler.find_used_column_context
RECURSIVE UsedColumns(_, _, _)
UsedColumns(select_field_list, column_references, i) ==
    IF i > Len(select_field_list) THEN column_references
    ELSE UsedColumns(select_field_list,
            OdUpdate(column_references,
                     find_column_references(select_field_list[i].expr)),
            i + 1)
\* find_used_column_context that finds no column
find_used_column_context_Empty(select_field_list) ==
    from_full_columns(<<>>, PyNone, PyNone)

find_used_column_context(select_field_list) ==
    from_full_columns(UsedColumns(select_field_list, <<>>, 1), PyNone, PyNone)

\* OrderedFields as compiled_field_dict.values(): the order of compilation
OrderedFields_DictOrder(compiled_field_dict, aliases) == compiled_field_dict

\* [compiled_field_dict[alias] for alias in aliases]
OrderedFields(compiled_field_dict, aliases) ==
    [i \in 1..Len(aliases) |-> FieldDictGet(compiled_field_dict, aliases[i])]

\* The loop of compile_select over the fields that are not grouped.
RECURSIVE NonGroupedLoop(_, _, _, _, _, _)
NonGroupedLoop(select_fields, aliases, group_set, aggregate_context, compiled_field_dict, i) ==
    IF i > Len(select_fields) THEN Ok(compiled_field_dict)
    ELSE IF group_set # PyNone /\ aliases[i] \notin group_set.alias_groups THEN
        Try(compile_select_field(select_fields[i].expr, aliases[i],
                                 aggregate_context), LAMBDA field :
            NonGroupedLoop(select_fields, aliases, group_set, aggregate_context,
                           FieldDictSet(compiled_field_dict, field), i + 1))
    ELSE NonGroupedLoop(select_fields, aliases, group_set, aggregate_context,
                        compiled_field_dict, i + 1)

\* collections.OrderedDict((field.alias, field.expr.type) for field in ...)
RECURSIVE AliasTypes(_, _, _)
AliasTypes(select_fields, result, i) ==
    IF i > Len(select_fields) THEN result
    ELSE AliasTypes(select_fields,
            OdSet(result, None, select_fields[i].alias,
                  select_fields[i].expr.type), i + 1)

RECURSIVE compile_select(_)
RECURSIVE compile_table_expr(_)

\* Compiler.compile_table_ref
compile_table_ref(table_expr, table) ==
    LET alias == IF table_expr.alias # None THEN table_expr.alias
                 ELSE table_expr.name
    IN Try(from_table_and_columns(alias, table.columns, PyNone, PyNone),
           LAMBDA type_ctx : Table(table_expr.name, type_ctx))

\* compile_view_ref that applies the alias the way a subquery's alias is
\* applied
compile_view_ref_SubqueryAlias(table_expr, view) ==
    LET alias == IF table_expr.alias # None THEN table_expr.alias
                 ELSE table_expr.name
        uncompiled_view_ast == parse_text(view.query)
    IN Try(compile_select(uncompiled_view_ast), LAMBDA compiled_view_select :
       Try(context_with_subquery_alias(compiled_view_select.type_ctx, alias),
           LAMBDA new_type_context :
       with_type_ctx(compiled_view_select, new_type_context)))

\* Compiler.compile_view_ref
compile_view_ref(table_expr, view) ==
    LET alias == IF table_expr.alias # None THEN table_expr.alias
                 ELSE table_expr.name
        uncompiled_view_ast == parse_text(view.query)
    IN Try(compile_select(uncompiled_view_ast), LAMBDA compiled_view_select :
       Try(context_with_full_alias(compiled_view_select.type_ctx, alias),
           LAMBDA new_type_context :
       with_type_ctx(compiled_view_select, new_type_context)))

\* Compiler.compile_table_expr_TableId: an absent name is a KeyError.
compile_table_expr_TableId(table_expr) ==
    IF table_expr.name \notin DOMAIN tables_by_name
    THEN Error("KeyError", "NotFound")
    ELSE LET table == tables_by_name[table_expr.name]
         IN IF table.kind = "Table" THEN compile_table_ref(table_expr, table)
            ELSE IF table.kind = "View" THEN compile_view_ref(table_expr, table)
            ELSE Error("NotImplementedError", "Unknown table type")

\* [self.compile_table_expr(table) for table in table_expr.tables]
RECURSIVE compile_tables(_, _, _)
compile_tables(tables, compiled_tables, i) ==
    IF i > Len(tables) THEN Ok(compiled_tables)
    ELSE Try(compile_table_expr(tables[i]), LAMBDA t :
             compile_tables(tables, Append(compiled_tables, t), i + 1))

\* compile_table_expr_TableUnion that keeps the qualifiers of the inputs
compile_table_expr_TableUnion_Qualified(table_expr) ==
    Try(compile_tables(table_expr.tables, <<>>, 1), LAMBDA compiled_tables :
    Try(from_full_columns(
            OdUpdate(<<>>, compiled_tables.val[1].type_ctx.columns
                \o (IF Len(compiled_tables.val) > 1
                    THEN compiled_tables.val[2].type_ctx.columns ELSE <<>>)),
            PyNone, PyNone), LAMBDA type_ctx :
    TableUnion(compiled_tables.val, type_ctx)))

\* Compiler.compile_table_expr_TableUnion
compile_table_expr_TableUnion(table_expr) ==
    Try(compile_tables(table_expr.tables, <<>>, 1), LAMBDA compiled_tables :
    Try(union_contexts([i \in 1..Len(compiled_tables.val) |->
                           compiled_tables.val[i].type_ctx]), LAMBDA type_ctx :
    TableUnion(compiled_tables.val, type_ctx)))

\* compile_joined_table that leaves the side's context as it was compiled
compile_joined_table_NoRequalify(table_expr) ==
    LET alias == IF table_expr.alias # None THEN table_expr.alias
                 ELSE table_expr.name
    IN Try(compile_table_expr(table_expr), LAMBDA compiled_table :
       IF table_expr.alias = None /\ table_expr.kind # "TableId"
       THEN CompileError("MissingAlias")
       ELSE [kind |-> "Ok", compiled_table |-> compiled_table,
             alias |-> alias])

\* Compiler.compile_joined_table: the pair (compiled_table, alias)
compile_joined_table(table_expr) ==
    LET alias == IF table_expr.alias # None THEN table_expr.alias
                 ELSE table_expr.name
    IN Try(compile_table_expr(table_expr), LAMBDA compiled_table :
       IF table_expr.alias = None /\ table_expr.kind # "TableId"
       THEN CompileError("MissingAlias") ELSE
       Try(context_with_full_alias(compiled_table.type_ctx, alias),
           LAMBDA result_ctx :
       [kind |-> "Ok",
        compiled_table |-> with_type_ctx(compiled_table, result_ctx),
        alias |-> alias]))

\* compile_join_fields that keeps every pair in the order it was written: both
\* columns are looked up in the joined context
RECURSIVE compile_join_fields_AsWritten(_, _, _, _, _)
compile_join_fields_AsWritten(type_ctx1, type_ctx2, alias1, alias2, expr) ==
    IF expr.kind = "BinaryOperator" /\ expr.operator = "and" THEN
        Try(compile_join_fields_AsWritten(type_ctx1, type_ctx2, alias1, alias2,
                                          expr.left), LAMBDA left :
        Try(compile_join_fields_AsWritten(type_ctx1, type_ctx2, alias1, alias2,
                                          expr.right), LAMBDA right :
        Ok(left.val \o right.val)))
    ELSE IF /\ expr.kind = "BinaryOperator"
            /\ expr.operator = "="
            /\ expr.left.kind = "ColumnId"
            /\ expr.right.kind = "ColumnId" THEN
        Try(join_contexts(<<type_ctx1, type_ctx2>>), LAMBDA both :
        Try(compile_ColumnId(expr.left, both), LAMBDA column_ref1 :
        Try(compile_ColumnId(expr.right, both), LAMBDA column_ref2 :
        Ok(<<JoinFields(column_ref1, column_ref2)>>))))
    ELSE CompileError("InvalidJoinCondition")

\* compile_join_fields that takes an OR for a conjunction
RECURSIVE compile_join_fields_OrAsAnd(_, _, _, _, _)
compile_join_fields_OrAsAnd(type_ctx1, type_ctx2, alias1, alias2, expr) ==
    IF expr.kind = "BinaryOperator" /\ expr.operator \in {"and", "or"} THEN
        Try(compile_join_fields_OrAsAnd(type_ctx1, type_ctx2, alias1, alias2,
                                        expr.left), LAMBDA left :
        Try(compile_join_fields_OrAsAnd(type_ctx1, type_ctx2, alias1, alias2,
                                        expr.right), LAMBDA right :
        Ok(left.val \o right.val)))
    ELSE IF /\ expr.kind = "BinaryOperator"
            /\ expr.operator = "="
            /\ expr.left.kind = "ColumnId"
            /\ expr.right.kind = "ColumnId" THEN
        LET swap == \/ IsDottedPrefix(alias2, expr.left.name)
                    \/ IsDottedPrefix(alias1, expr.right.name)
            column_id1 == IF swap THEN expr.right ELSE expr.left
            column_id2 == IF swap THEN expr.left ELSE expr.right
        IN Try(compile_ColumnId(column_id1, type_ctx1), LAMBDA column_ref1 :
           Try(compile_ColumnId(column_id2, type_ctx2), LAMBDA column_ref2 :
           Ok(<<JoinFields(column_ref1, column_ref2)>>)))
    ELSE CompileError("InvalidJoinCondition")

\* Compiler.compile_join_fields
RECURSIVE compile_join_fields(_, _, _, _, _)
compile_join_fields(type_ctx1, type_ctx2, alias1, alias2, expr) ==
    IF expr.kind = "BinaryOperator" /\ expr.operator = "and" THEN
        Try(compile_join_fields(type_ctx1, type_ctx2, alias1, alias2,
                                expr.left), LAMBDA left :
        Try(compile_join_fields(type_ctx1, type_ctx2, alias1, alias2,
                                expr.right), LAMBDA right :
        Ok(left.val \o right.val)))
    ELSE IF /\ expr.kind = "BinaryOperator"
            /\ expr.operator = "="
            /\ expr.left.kind = "ColumnId"
            /\ expr.right.kind = "ColumnId" THEN
        LET swap == \/ IsDottedPrefix(alias2, expr.left.name)
                    \/ IsDottedPrefix(alias1, expr.right.name)
            column_id1 == IF swap THEN expr.right ELSE expr.left
            column_id2 == IF swap THEN expr.left ELSE expr.right
        IN Try(compile_ColumnId(column_id1, type_ctx1), LAMBDA column_ref1 :
           Try(compile_ColumnId(column_id2, type_ctx2), LAMBDA column_ref2 :
           Ok(<<JoinFields(column_ref1, column_ref2)>>)))
    ELSE CompileError("InvalidJoinCondition")

\* compile_table_expr_CrossJoin that joins the contexts right side first
compile_table_expr_CrossJoin_RightFirst(table_expr) ==
    Try(compile_joined_table(table_expr.table1), LAMBDA t1 :
    Try(compile_joined_table(table_expr.table2), LAMBDA t2 :
    Try(join_contexts(<<t2.compiled_table.type_ctx,
                        t1.compiled_table.type_ctx>>), LAMBDA result_type_ctx :
    Join(t1.compiled_table, t2.compiled_table, <<>>, FALSE,
         result_type_ctx))))

\* Compiler.compile_table_expr_CrossJoin
compile_table_expr_CrossJoin(table_expr) ==
    Try(compile_joined_table(table_expr.table1), LAMBDA t1 :
    Try(compile_joined_table(table_expr.table2), LAMBDA t2 :
    Try(join_contexts(<<t1.compiled_table.type_ctx,
                        t2.compiled_table.type_ctx>>), LAMBDA result_type_ctx :
    Join(t1.compiled_table, t2.compiled_table, <<>>, FALSE,
         result_type_ctx))))

\* Compiler.compile_table_expr_Join
compile_table_expr_Join(table_expr) ==
    Try(compile_joined_table(table_expr.table1), LAMBDA t1 :
    Try(compile_joined_table(table_expr.table2), LAMBDA t2 :
    Try(compile_join_fields(t1.compiled_table.type_ctx,
                            t2.compiled_table.type_ctx, t1.alias, t2.alias,
                            table_expr.condition), LAMBDA result_fields :
    Try(join_contexts(<<t1.compiled_table.type_ctx,
                        t2.compiled_table.type_ctx>>), LAMBDA result_type_ctx :
    Join(t1.compiled_table, t2.compiled_table, result_fields.val,
         table_expr.is_left_outer, result_type_ctx)))))

\* compile_table_expr_Select that re-qualifies an aliased subquery the way a
\* view is re-qualified
compile_table_expr_Select_FullAlias(table_expr) ==
    Try(compile_select(table_expr), LAMBDA select_result :
    IF table_expr.alias # None THEN
        Try(context_with_full_alias(select_result.type_ctx, table_expr.alias),
            LAMBDA new_type_context :
            with_type_ctx(select_result, new_type_context))
    ELSE select_result)

\* Compiler.compile_table_expr_Select
compile_table_expr_Select(table_expr) ==
    Try(compile_select(table_expr), LAMBDA select_result :
    IF table_expr.alias # None THEN
        Try(context_with_subquery_alias(select_result.type_ctx,
                                        table_expr.alias),
            LAMBDA new_type_context :
            with_type_ctx(select_result, new_type_context))
    ELSE select_result)

\* Compiler.compile_table_expr: dispatch on the class of the node
compile_table_expr(table_expr) ==
    IF table_expr = PyNone THEN NoTable
    ELSE IF table_expr.kind = "TableId"
    THEN compile_table_expr_TableId(table_expr)
    ELSE IF table_expr.kind = "TableUnion"
    THEN compile_table_expr_TableUnion(table_expr)
    ELSE IF table_expr.kind = "CrossJoin"
    THEN compile_table_expr_CrossJoin(table_expr)
    ELSE IF table_expr.kind = "Join" THEN compile_table_expr_Join(table_expr)
    ELSE IF table_expr.kind = "Select"
    THEN compile_table_expr_Select(table_expr)
    ELSE Error("NotImplementedError", "Missing handler")

\* Compiler.compile_select
compile_select(select) ==
    LET \* the return statement, on the fields in the order of the aliases
        Result(table_expr, where_expr, group_set, implicit_column_context, ordered_fields, alias_types) ==
            Try(from_table_and_columns(None,
                    [i \in 1..Len(alias_types) |->
                        Column(alias_types[i].column, alias_types[i].type)],
                    implicit_column_context, PyNone), LAMBDA result_context :
            Select(ordered_fields, table_expr, where_expr, group_set,
                   select.limit, result_context))
    IN
    Try(compile_table_expr(select.table_expr), LAMBDA table_expr :
    Try(compile_where_expr(select.where_expr, table_expr.type_ctx),
        LAMBDA where_expr :
    Try(expand_select_fields(select.select_fields, table_expr),
        LAMBDA select_fields :
    Try(get_aliases(select_fields.val), LAMBDA aliases :
    Try(compile_groups(select.groups, select_fields.val, aliases.val,
                       table_expr.type_ctx), LAMBDA group_set :
    Try(compile_group_fields(select_fields.val, aliases.val, group_set,
                             table_expr.type_ctx), LAMBDA grouped :
    Try(find_used_column_context(grouped.compiled_field_dict),
        LAMBDA implicit_column_context :
    Try(NonGroupedLoop(select_fields.val, aliases.val, group_set,
                       grouped.aggregate_context,
                       grouped.compiled_field_dict, 1),
        LAMBDA compiled_field_dict :
    Result(table_expr, where_expr, group_set, implicit_column_context,
           OrderedFields(compiled_field_dict.val, aliases.val),
           AliasTypes(OrderedFields(compiled_field_dict.val, aliases.val),
                      <<>>, 1))))))))))

\* compile_text, on the tree parser.parse_text returned for the text
compile_text(ast) == compile_select(ast)

(***************************************************************************)
(* Inputs: the syntax trees the compiler is run on.                        *)
(***************************************************************************)
MaxFields == 3

Lit(n) == AstLiteral(PyInt(n))
Col(name) == ColumnId(<<name>>)
Sum(e) == AstFunctionCall("sum", <<e>>)

\* Select fields (expression, written alias)
FieldInputs ==
    { AstSelectField(Lit(1), None),
      AstSelectField(Lit(2), <<"f0_">>),
      AstSelectField(Col("value"), None),
      AstSelectField(Col("value"), <<"value2">>),
      AstSelectField(Col("foo"), None),
      AstSelectField(BinaryOperator("+", Col("value"), Lit(1)), <<"foo">>),
      AstSelectField(UnaryOperator("-", Col("value2")), None),
      AstSelectField(Sum(Col("value")), None),
      AstSelectField(AstFunctionCall("max", <<Col("value2")>>), None),
      AstSelectField(BinaryOperator("+", Col("value"), Sum(Col("value"))), None),
      AstSelectField(UnaryOperator("-", Sum(Col("value"))), <<"f1_">>),
      AstSelectField(AstFunctionCall("abs",
          <<BinaryOperator("+", Lit(1), Sum(Col("value")))>>), None),
      Star }

FieldLists == UNION {[1..n -> FieldInputs] : n \in 1..MaxFields}

GroupInputs ==
    { PyNone,
      Groups(<<Col("value")>>),
      Groups(<<Col("value2")>>),
      Groups(<<Col("foo")>>),
      Groups(<<Col("value"), Col("value2")>>),
      Groups(<<Col("nosuch")>>) }

Table1 == TableId(<<"table1">>, None)
Table2 == TableId(<<"table2">>, None)
JoinCondition ==
    BinaryOperator("=", ColumnId(<<"t1", "value">>), ColumnId(<<"t2", "value">>))
InnerSelect(alias) ==
    AstSelect(<<AstSelectField(Col("value"), None),
                AstSelectField(BinaryOperator("+", Col("value"), Lit(1)),
                               <<"foo">>)>>,
              Table1, PyNone, PyNone, PyNone, alias)

TableInputs ==
    { PyNone,
      Table1,
      TableId(<<"table1">>, <<"t">>),
      TableId(<<"nosuch">>, None),
      TableId(<<"view1">>, None),
      AstTableUnion(<<Table1, Table2>>),
      AstJoin(TableId(<<"table1">>, <<"t1">>), TableId(<<"table2">>, <<"t2">>),
              JoinCondition, FALSE),
      CrossJoin(Table1, Table2),
      InnerSelect(None),
      InnerSelect(<<"t">>) }

WhereInputs ==
    { PyNone,
      BinaryOperator(">", Col("value"), Lit(3)),
      Col("value"),
      BinaryOperator("+", Col("value"), Lit(1)),
      BinaryOperator("=", Col("nosuch"), Lit(1)),
      AstLiteral(PyBool(FALSE)) }

LimitInputs == {PyNone, PyInt(10)}

\* Every select list and GROUP BY, over a base table
SelectListQueries ==
    { AstSelect(fields, Table1, PyNone, groups, PyNone, None) :
        fields \in FieldLists, groups \in GroupInputs }

\* Every table expression and WHERE, under a few select lists
TableQueries ==
    { AstSelect(fields, table, where, groups, limit, None) :
        fields \in { <<AstSelectField(Lit(1), None)>>,
                     <<AstSelectField(Col("value"), None)>>,
                     <<Star>>,
                     <<AstSelectField(Sum(Col("value")), None)>>,
                     <<AstSelectField(Lit(1), <<"foo">>),
                       AstSelectField(Col("value"), <<"foo">>)>> },
        table \in TableInputs, where \in WhereInputs,
        groups \in {PyNone, Groups(<<Col("value")>>), Groups(<<Col("value2")>>)},
        limit \in LimitInputs }

\* ON conditions: single comparisons, and conjunctions of them
QCol(table, name) == ColumnId(<<table, name>>)
Eq(l, r) == BinaryOperator("=", l, r)
And(l, r) == BinaryOperator("and", l, r)
JoinAtoms ==
    { Eq(QCol("t1", "value"), QCol("t2", "value")),
      Eq(QCol("t2", "value3"), QCol("t1", "value2")),
      Eq(Col("value2"), Col("value3")),
      Eq(Col("value3"), Col("value2")),
      Eq(QCol("t1", "value"), QCol("t1", "value2")),
      Eq(QCol("t1", "value"), Lit(1)),
      BinaryOperator("<", QCol("t1", "value"), QCol("t2", "value")),
      BinaryOperator("or", Eq(QCol("t1", "value"), QCol("t2", "value")),
                           Eq(QCol("t1", "value2"), QCol("t2", "value3"))),
      QCol("t1", "value"),
      AstLiteral(PyBool(TRUE)) }
JoinConditions ==
    JoinAtoms
        \cup {And(a, b) : a, b \in JoinAtoms}
        \cup {And(And(a, b), a) : a, b \in JoinAtoms}
        \cup {And(a, And(b, a)) : a, b \in JoinAtoms}

\* table1 t1 JOIN <table2 or a subquery over it> t2 ON <condition>
RightSides ==
    { TableId(<<"table2">>, <<"t2">>),
      AstSelect(<<Star>>, Table2, PyNone, PyNone, PyNone, <<"t2">>) }
JoinQueries ==
    { AstSelect(fields, AstJoin(TableId(<<"table1">>, <<"t1">>), right,
                                condition, outer),
                PyNone, PyNone, PyNone, None) :
        fields \in {<<Star>>, <<AstSelectField(QCol("t2", "value3"), None)>>},
        right \in RightSides, condition \in JoinConditions,
        outer \in BOOLEAN }

\* Calls and literals, as select fields and in WHERE, over a base table
ExpressionFields ==
    { AstSelectField(Sum(Sum(Col("value"))), None),
      AstSelectField(Sum(Col("value")), <<"foo">>),
      AstSelectField(AstFunctionCall("abs", <<Sum(Col("value"))>>), <<"foo">>),
      AstSelectField(Sum(AstFunctionCall("abs", <<Col("value")>>)), None),
      AstSelectField(Sum(AstFunctionCall("max", <<Col("value")>>)), None),
      AstSelectField(Sum(BinaryOperator("+", Col("value"),
                             AstFunctionCall("max", <<Col("value")>>))),
                     <<"foo">>),
      AstSelectField(AstFunctionCall("pow", <<Col("value"), Lit(2)>>), None),
      AstSelectField(AstFunctionCall("count", <<Col("value2")>>), None),
      AstSelectField(Col("value"), None),
      AstSelectField(AstLiteral(PyBool(TRUE)), None),
      AstSelectField(AstLiteral(PyBool(FALSE)), <<"b">>),
      AstSelectField(Lit(0), None),
      AstSelectField(AstLiteral(PyFloat("1.5")), None),
      AstSelectField(AstLiteral(PyStr("one")), None),
      AstSelectField(AstLiteral(PyNoneValue), None) }
ExpressionQueries ==
    { AstSelect(fields, Table1, where, groups, PyNone, None) :
        fields \in {<<f>> : f \in ExpressionFields}
                      \cup {<<f, g>> : f, g \in ExpressionFields},
        where \in { PyNone,
                    BinaryOperator(">", Sum(Col("value")), Lit(3)),
                    BinaryOperator("=", AstFunctionCall("abs",
                        <<Sum(Sum(Col("value")))>>), Lit(3)) },
        groups \in {PyNone, Groups(<<Col("foo")>>), Groups(<<Col("value")>>)} }

\* Fields of an outer query over a subquery, with and without the alias t
SubqueryFields ==
    { AstSelectField(QCol("t", "value"), None),
      AstSelectField(QCol("t", "foo"), None),
      AstSelectField(QCol("u", "value"), None),
      AstSelectField(Col("value"), <<"v">>),
      AstSelectField(Col("foo"), None),
      Star }
SubqueryQueries ==
    { AstSelect(fields, InnerSelect(alias), PyNone, PyNone, PyNone, None) :
        fields \in {<<f>> : f \in SubqueryFields}
                      \cup {<<f, g>> : f, g \in SubqueryFields},
        alias \in {None, <<"t">>} }

\* Subqueries without alias whose fields reference base columns that they
\* do not all select, and the fields of an outer query over them
InnerSelects ==
    { \* SELECT value + 1 AS foo FROM table1
      AstSelect(<<AstSelectField(BinaryOperator("+", Col("value"), Lit(1)),
                                 <<"foo">>)>>,
                Table1, PyNone, PyNone, PyNone, None),
      \* SELECT value + 1.5 AS value FROM table1
      AstSelect(<<AstSelectField(BinaryOperator("+", Col("value"),
                                     AstLiteral(PyFloat("1.5"))),
                                 <<"value">>)>>,
                Table1, PyNone, PyNone, PyNone, None),
      \* SELECT table1.value FROM table1
      AstSelect(<<AstSelectField(QCol("table1", "value"), None)>>,
                Table1, PyNone, PyNone, PyNone, None),
      \* SELECT t.value + 1 AS foo FROM table1 t
      AstSelect(<<AstSelectField(BinaryOperator("+", QCol("t", "value"), Lit(1)),
                                 <<"foo">>)>>,
                TableId(<<"table1">>, <<"t">>), PyNone, PyNone, PyNone, None),
      \* SELECT POW(value, 2) AS foo, value2, value FROM table1
      AstSelect(<<AstSelectField(AstFunctionCall("pow", <<Col("value"), Lit(2)>>),
                                 <<"foo">>),
                  AstSelectField(Col("value2"), None),
                  AstSelectField(Col("value"), None)>>,
                Table1, PyNone, PyNone, PyNone, None),
      \* SELECT SUM(value) AS foo FROM table1
      AstSelect(<<AstSelectField(Sum(Col("value")), <<"foo">>)>>,
                Table1, PyNone, PyNone, PyNone, None),
      \* SELECT value2, SUM(value) AS foo FROM table1 GROUP BY value2
      AstSelect(<<AstSelectField(Col("value2"), None),
                  AstSelectField(Sum(Col("value")), <<"foo">>)>>,
                Table1, PyNone, Groups(<<Col("value2")>>), PyNone, None),
      \* SELECT 1 AS foo FROM table1 WHERE value > 3
      AstSelect(<<AstSelectField(Lit(1), <<"foo">>)>>,
                Table1, BinaryOperator(">", Col("value"), Lit(3)), PyNone,
                PyNone, None) }
OuterFields ==
    { AstSelectField(QCol("table1", "value"), None),
      AstSelectField(QCol("table1", "value2"), <<"v2">>),
      AstSelectField(QCol("t", "value"), None),
      AstSelectField(Col("value"), <<"v">>),
      AstSelectField(Col("foo"), None),
      Star }
ImplicitQueries ==
    { AstSelect(fields, inner, PyNone, PyNone, PyNone, None) :
        fields \in {<<f>> : f \in OuterFields}
                      \cup {<<f, g>> : f, g \in OuterFields},
        inner \in InnerSelects }

\* Comma-separated FROM lists, and fields over them
UnionTables ==
    { <<Table1, Table2>>,
      <<Table2, Table1>>,
      <<Table1, Table1>>,
      <<TableId(<<"table1">>, <<"t">>), Table2>>,
      <<Table2, Table1, TableId(<<"table2">>, <<"t2">>)>>,
      <<Table1, TableId(<<"view1">>, None)>>,
      <<Table1>>,
      <<Table1, TableId(<<"nosuch">>, None)>> }
UnionFields ==
    { AstSelectField(Col("value"), None),
      AstSelectField(Col("value3"), None),
      AstSelectField(BinaryOperator("+", Col("value"), Col("value3")),
                     <<"foo">>),
      AstSelectField(QCol("table1", "value"), None),
      AstSelectField(AstFunctionCall("max", <<Col("value2")>>), None),
      Star }
UnionQueries ==
    { AstSelect(fields, AstTableUnion(tables), where, PyNone, PyNone, None) :
        fields \in {<<f>> : f \in UnionFields}
                      \cup {<<f, g>> : f, g \in UnionFields},
        tables \in UnionTables,
        where \in {PyNone, BinaryOperator(">", Col("value3"), Lit(3))} }

\* References to views, and subqueries with the views' query text
ViewTables ==
    { TableId(name, alias) :
        name \in {<<"view1">>, <<"view2">>, <<"view3">>},
        alias \in {None, <<"v">>} }
        \cup { [parse_text(text) EXCEPT !.alias = alias] :
                 text \in {ViewText, ViewText2, ViewText3},
                 alias \in {None, <<"v">>} }
ViewFields ==
    { AstSelectField(Col("foo"), None),
      AstSelectField(QCol("v", "foo"), None),
      AstSelectField(QCol("view1", "foo"), <<"f">>),
      AstSelectField(QCol("v", "s"), None),
      AstSelectField(Col("value"), None),
      AstSelectField(QCol("view2", "value"), None),
      Star }
ViewQueries ==
    { AstSelect(fields, table, PyNone, PyNone, PyNone, None) :
        fields \in {<<f>> : f \in ViewFields}
                      \cup {<<f, g>> : f, g \in ViewFields},
        table \in ViewTables }

\* Joins of two tables the first of whose aliases is a dotted prefix of the
\* second's: table1 t JOIN table2 t.x ON <condition>
PrefixJoinConditions ==
    { Eq(QCol("t", "value2"), ColumnId(<<"t", "x", "value3">>)),
      Eq(ColumnId(<<"t", "x", "value3">>), QCol("t", "value2")),
      Eq(Col("value2"), ColumnId(<<"t", "x", "value3">>)),
      Eq(QCol("t", "value2"), Col("value3")),
      And(Eq(QCol("t", "value"), ColumnId(<<"t", "x", "value">>)),
          Eq(Col("value3"), Col("value2"))) }
PrefixJoinQueries ==
    { AstSelect(fields, AstJoin(TableId(<<"table1">>, <<"t">>),
                                TableId(<<"table2">>, <<"t", "x">>),
                                condition, outer),
                PyNone, PyNone, PyNone, None) :
        fields \in {<<Star>>, <<AstSelectField(Lit(1), None)>>},
        condition \in PrefixJoinConditions, outer \in BOOLEAN }

\* WHERE clauses that name select-list aliases and columns of the table
WhereFieldLists ==
    { <<AstSelectField(Col("value"), <<"foo">>)>>,
      <<AstSelectField(BinaryOperator("+", Col("value"), Lit(1)), <<"foo">>)>>,
      <<AstSelectField(Col("value"), <<"value2">>)>>,
      <<AstSelectField(Lit(1), <<"foo">>), AstSelectField(Col("value2"), None)>>,
      <<AstSelectField(Sum(Col("value")), <<"foo">>)>> }
WhereExprs ==
    { BinaryOperator(">", Col("foo"), Lit(3)),
      BinaryOperator(">", Col("value"), Lit(3)),
      BinaryOperator("=", Col("value2"), AstLiteral(PyStr("one"))),
      BinaryOperator(">", Col("value2"), Lit(3)),
      BinaryOperator(">", UnaryOperator("-", Col("value2")), Col("foo")),
      BinaryOperator(">", BinaryOperator("+", Col("foo"), Lit(1)), Col("value")),
      BinaryOperator(">", AstFunctionCall("abs", <<Col("foo")>>), Lit(1)),
      BinaryOperator("and", BinaryOperator(">", Col("value"), Lit(3)),
                            BinaryOperator(">", Col("foo"), Lit(3))),
      BinaryOperator(">", QCol("table1", "value"), Lit(3)) }
WhereQueries ==
    { AstSelect(fields, table, where, PyNone, PyNone, None) :
        fields \in WhereFieldLists, where \in WhereExprs,
        table \in {Table1, TableId(<<"table1">>, <<"t">>), InnerSelect(None)} }

\* Cross joins and joins of sides with and without alias
JoinedSides ==
    { Table1, Table2,
      TableId(<<"table1">>, <<"t1">>),
      TableId(<<"view1">>, None),
      InnerSelect(<<"s">>),
      InnerSelect(None) }
SidedJoins ==
    { CrossJoin(l, r) : l, r \in JoinedSides }
        \cup { AstJoin(l, r, Eq(Col("value"), QCol("table2", "value")), outer) :
                 l \in JoinedSides, r \in {Table2}, outer \in BOOLEAN }
SidedJoinFields ==
    { <<Star>>,
      <<AstSelectField(QCol("table1", "value"), None),
        AstSelectField(QCol("table2", "value"), None)>>,
      <<AstSelectField(Col("value"), None)>>,
      <<AstSelectField(Col("value3"), None), AstSelectField(Col("foo"), None)>> }
SidedJoinQueries ==
    { AstSelect(fields, table, PyNone, PyNone, PyNone, None) :
        fields \in SidedJoinFields, table \in SidedJoins }

Queries == SelectListQueries \cup TableQueries \cup JoinQueries
               \cup ExpressionQueries \cup SubqueryQueries
               \cup ImplicitQueries \cup UnionQueries
               \cup ViewQueries \cup PrefixJoinQueries \cup WhereQueries
               \cup InnerSelects \cup SidedJoinQueries

(***************************************************************************)
(* The state machine: a syntax tree is chosen, and the compiler's entry    *)
(* points are applied to it.                                               *)
(***************************************************************************)
\* stack: the selects whose compilation has begun and not returned, the
\* innermost last, when the compilation is followed call by call
VARIABLES select, result, aliases, stack
vars == <<select, result, aliases, stack>>

Init ==
    /\ select \in Queries
    /\ result = PyNone
    /\ aliases = PyNone
    /\ stack = <<>>

\* compile_text(text, tables_by_name)
CompileText ==
    /\ result = PyNone
    /\ result' = compile_text(select)
    /\ UNCHANGED <<select, aliases, stack>>

\* Compiler.get_aliases(select_field_list), on a list of SelectField
GetAliases ==
    /\ aliases = PyNone
    /\ \A i \in 1..Len(select.select_fields) :
           select.select_fields[i].kind = "SelectField"
    /\ aliases' = get_aliases(select.select_fields)
    /\ UNCHANGED <<select, result, stack>>

Next == CompileText \/ GetAliases

Spec == Init /\ [][Next]_vars

(***************************************************************************)
(* The stages of compile_select on the chosen tree, for stating the        *)
(* properties.                                                             *)
(***************************************************************************)
HasStar(select_fields) ==
    \E i \in 1..Len(select_fields) : select_fields[i].kind = "Star"

CompiledTable == compile_table_expr(select.table_expr)
CompiledWhere ==
    compile_where_expr(select.where_expr, CompiledTable.type_ctx)

\* The select list after star expansion; a list without a star is its own
\* expansion whatever the table expression.
ExpandedFields ==
    IF ~HasStar(select.select_fields) THEN Ok(select.select_fields)
    ELSE IF IsErr(CompiledTable) THEN CompiledTable
    ELSE expand_select_fields(select.select_fields, CompiledTable)

\* Two fields, at any two positions, with the same proposed alias
HasDuplicateProposedAlias(fields) ==
    \E i, j \in 1..Len(fields) :
        /\ i # j
        /\ field_alias(fields[i]) # None
        /\ field_alias(fields[i]) = field_alias(fields[j])

Compiled == result # PyNone
Succeeded == result.kind = "Select"

\* The table expression and the WHERE clause compile
FromAndWhereCompile ==
    /\ ~IsErr(CompiledTable)
    /\ ~IsErr(CompiledWhere)

(***************************************************************************)
(* C1                                                                      *)
(***************************************************************************)
\* C1, as stated: whenever two fields of the star-expanded select list have
\* the same proposed alias, compilation fails with the 'ambiguous column
\* name' compile error.
C1_DuplicateAliasIsAmbiguous ==
    (/\ Compiled
     /\ ~IsErr(ExpandedFields)
     /\ HasDuplicateProposedAlias(ExpandedFields.val))
        => result = CompileError("Ambiguous")

\* C1, amended: get_aliases raises the 'ambiguous column name' compile error
\* for every select list in which two fields have the same proposed alias;
\* compiling a select with such a list (after star expansion) returns no
\* Select, and the failure is that error whenever the table expression and
\* the WHERE clause, which are compiled first, compile.
C1_DuplicateAliasFails ==
    /\ (/\ aliases # PyNone
        /\ HasDuplicateProposedAlias(select.select_fields))
            => aliases = CompileError("Ambiguous")
    /\ (/\ Compiled
        /\ ~IsErr(ExpandedFields)
        /\ HasDuplicateProposedAlias(ExpandedFields.val))
            => /\ IsErr(result)
               /\ FromAndWhereCompile => result = CompileError("Ambiguous")

\* A star's column and a bare column of the same name, two positions apart,
\* are rejected.
C1_Witness ==
    /\ result = CompileError("Ambiguous")
    /\ HasStar(select.select_fields)
    /\ ~IsErr(ExpandedFields)
    /\ \E i, j \in 1..Len(ExpandedFields.val) :
          /\ j > i + 1
          /\ field_alias(ExpandedFields.val[i]) # None
          /\ field_alias(ExpandedFields.val[i])
                = field_alias(ExpandedFields.val[j])

(***************************************************************************)
(* C2                                                                      *)
(***************************************************************************)
ProposedAliases(fields) == [i \in 1..Len(fields) |-> field_alias(fields[i])]

\* The number N of the synthetic alias of field i: the lowest one used
\* neither by a proposed alias nor by a synthetic alias of an earlier field.
LowestFreeNumber(proposed, assigned, i) ==
    LET Taken(n) ==
            \/ GenericAlias(n) \in Range(proposed)
            \/ \E j \in 1..(i - 1) :
                   proposed[j] = None /\ assigned[j] = GenericAlias(n)
    IN CHOOSE n \in 0..(2 * Len(proposed)) :
           ~Taken(n) /\ \A m \in 0..(n - 1) : Taken(m)

\* C2: for a select list with pairwise distinct proposed aliases, get_aliases
\* keeps every proposed alias, gives each other field f<N>_ for the lowest N
\* used neither by a proposed alias of any field nor by the synthetic alias
\* of an earlier field, and returns pairwise distinct aliases.
C2_SyntheticAliases ==
    (/\ aliases # PyNone
     /\ ~HasDuplicateProposedAlias(select.select_fields))
        => LET proposed == ProposedAliases(select.select_fields) IN
           /\ aliases.kind = "Ok"
           /\ Len(aliases.val) = Len(proposed)
           /\ \A i \in 1..Len(proposed) :
                 IF proposed[i] # None THEN aliases.val[i] = proposed[i]
                 ELSE aliases.val[i] =
                        GenericAlias(LowestFreeNumber(proposed, aliases.val, i))
           /\ \A i, j \in 1..Len(proposed) :
                 aliases.val[i] = aliases.val[j] => i = j

\* Two fields without alias, the second after an explicit f0_ and f1_ is
\* skipped as well: f2_ is assigned.
C2_Witness ==
    /\ aliases # PyNone
    /\ aliases.kind = "Ok"
    /\ \E i, j \in 1..Len(aliases.val) :
          /\ i < j
          /\ field_alias(select.select_fields[i]) = None
          /\ aliases.val[i] \in {<<"f1_">>, <<"f2_">>}
          /\ field_alias(select.select_fields[j]) = <<"f0_">>

(***************************************************************************)
(* C3                                                                      *)
(***************************************************************************)
\* The compiled expression is the compilation of this syntax tree: the same
\* operators, functions and literals, and for a column the written name.
RECURSIVE IsCompilationOf(_, _)
IsCompilationOf(typed, ast) ==
    IF ast.kind = "Literal"
    THEN typed.kind = "Literal" /\ typed.value = ast.value
    ELSE IF ast.kind = "ColumnId"
    THEN /\ typed.kind = "ColumnRef"
         /\ \/ typed.column = ast.name
            \/ typed.table \o typed.column = ast.name
    ELSE IF ast.kind = "UnaryOperator"
    THEN /\ typed.kind = "FunctionCall"
         /\ typed.func = Function("unary", ast.operator)
         /\ Len(typed.args) = 1
         /\ IsCompilationOf(typed.args[1], ast.expr)
    ELSE IF ast.kind = "BinaryOperator"
    THEN /\ typed.kind = "FunctionCall"
         /\ typed.func = Function("binary", ast.operator)
         /\ Len(typed.args) = 2
         /\ IsCompilationOf(typed.args[1], ast.left)
         /\ IsCompilationOf(typed.args[2], ast.right)
    ELSE /\ typed.kind \in {"FunctionCall", "AggregateFunctionCall"}
         /\ typed.func = Function("func", ast.name)
         /\ Len(typed.args) = Len(ast.args)
         /\ \A i \in 1..Len(ast.args) :
               IsCompilationOf(typed.args[i], ast.args[i])

\* C3: in a compiled Select the output fields are the star-expanded input
\* fields, one each and in their order, and the result context has exactly
\* one entry (None, alias) -> type per output field, in the same order, with
\* the type of the field's compiled expression.
C3_FieldsInOrder ==
    Succeeded =>
        LET input == expand_select_fields(select.select_fields, result.table).val
            output == result.select_fields
            columns == result.type_ctx.columns
        IN /\ Len(output) = Len(input)
           /\ \A i \in 1..Len(input) :
                 /\ field_alias(input[i]) # None
                        => output[i].alias = field_alias(input[i])
                 /\ IsCompilationOf(output[i].expr, input[i].expr)
           /\ Len(columns) = Len(output)
           /\ \A i \in 1..Len(output) :
                 columns[i] = Entry(None, output[i].alias, output[i].expr.type)

\* A field compiled against the aggregate context stands before a grouped
\* field, which was compiled first.
C3_Witness ==
    /\ Succeeded
    /\ result.group_set # PyNone
    /\ Len(result.select_fields) = 3
    /\ result.select_fields[1].alias \notin result.group_set.alias_groups
    /\ result.select_fields[1].expr.kind = "AggregateFunctionCall"
    /\ result.select_fields[2].alias \in result.group_set.alias_groups
    /\ result.select_fields[3].alias \notin result.group_set.alias_groups

(***************************************************************************)
(* C4                                                                      *)
(***************************************************************************)
\* C4: the filter expression of every compiled Select has type boolean.
C4_FilterIsBoolean ==
    Succeeded => result.where_expr.type = BOOL

(***************************************************************************)
(* C5                                                                      *)
(***************************************************************************)
\* C5: a select without WHERE clause that compiles has the literal true, of
\* type boolean, as its filter expression.
C5_NoWhereIsTrue ==
    (Succeeded /\ select.where_expr = PyNone)
        => result.where_expr = Literal(PyBool(TRUE), BOOL)

\* A grouped select over a join, without WHERE clause
C5_Witness ==
    /\ Succeeded
    /\ select.where_expr = PyNone
    /\ result.table.kind = "Join"
    /\ result.group_set # PyNone
    /\ result.where_expr = Literal(PyBool(TRUE), BOOL)

(***************************************************************************)
(* The stages up to the group set, and the syntax of expressions           *)
(***************************************************************************)
StageAliases == get_aliases(ExpandedFields.val)
StageGroups ==
    compile_groups(select.groups, ExpandedFields.val, StageAliases.val,
                   CompiledTable.type_ctx)

\* The table expression, the WHERE clause and the aliases compile
AliasesCompile ==
    /\ FromAndWhereCompile
    /\ ~IsErr(ExpandedFields)
    /\ ~IsErr(StageAliases)

\* The section 7 error kinds
ErrorKinds ==
    {"NotFound", "Ambiguous", "InvalidJoinCondition", "UnboundAggregate",
     "TypeError", "UnknownFunction"}
FailsWithCompileError == IsErr(result) /\ result.what \in ErrorKinds

\* All nodes of a syntax tree
RECURSIVE SubExprs(_)
SubExprs(expr) ==
    {expr} \cup
    (IF expr.kind = "UnaryOperator" THEN SubExprs(expr.expr)
     ELSE IF expr.kind = "BinaryOperator"
     THEN SubExprs(expr.left) \cup SubExprs(expr.right)
     ELSE IF expr.kind = "FunctionCall"
     THEN UNION {SubExprs(expr.args[i]) : i \in 1..Len(expr.args)}
     ELSE {})

IsAggregateCall(expr) ==
    expr.kind = "FunctionCall" /\ expr.name \in AggregateFuncs
ContainsAggregateCall(expr) == \E n \in SubExprs(expr) : IsAggregateCall(n)

\* The column names written outside the arguments of every aggregate call
RECURSIVE NamesOutsideAggregates(_)
NamesOutsideAggregates(expr) ==
    IF expr.kind = "ColumnId" THEN {expr.name}
    ELSE IF expr.kind = "UnaryOperator" THEN NamesOutsideAggregates(expr.expr)
    ELSE IF expr.kind = "BinaryOperator"
    THEN NamesOutsideAggregates(expr.left)
            \cup NamesOutsideAggregates(expr.right)
    ELSE IF expr.kind = "FunctionCall" /\ ~IsAggregateCall(expr)
    THEN UNION {NamesOutsideAggregates(expr.args[i]) : i \in 1..Len(expr.args)}
    ELSE {}

(***************************************************************************)
(* C6                                                                      *)
(***************************************************************************)
\* C6: without GROUP BY clause the group set is the trivial GroupSet iff some
\* star-expanded select field holds a call of an aggregate function anywhere
\* in its tree, and None otherwise.
C6_ImplicitAggregate ==
    (Compiled /\ AliasesCompile /\ select.groups = PyNone)
        => LET is_aggregate ==
                   \E i \in 1..Len(ExpandedFields.val) :
                       ContainsAggregateCall(ExpandedFields.val[i].expr)
               expected == IF is_aggregate THEN GroupSet({}, <<>>) ELSE PyNone
           IN /\ StageGroups = expected
              /\ Succeeded => result.group_set = expected

\* The only aggregate call is the right operand of a binary operator inside
\* a function argument.
C6_Witness ==
    /\ Succeeded
    /\ select.groups = PyNone
    /\ result.group_set = GroupSet({}, <<>>)
    /\ Len(select.select_fields) = 2
    /\ select.select_fields[1].expr.kind = "Literal"
    /\ select.select_fields[2].expr.kind = "FunctionCall"
    /\ select.select_fields[2].expr.name = "abs"

(***************************************************************************)
(* C7                                                                      *)
(***************************************************************************)
GroupNames == [i \in 1..Len(select.groups.items) |-> select.groups.items[i].name]
IsNoAlias(name) == name \notin Range(StageAliases.val)
\* The GROUP BY names that are no select-field alias, in GROUP BY order
FieldGroupNames == SelectSeq(GroupNames, IsNoAlias)

\* C7: with a GROUP BY list the group set is a GroupSet whose alias_groups
\* are the GROUP BY names that are select-field aliases and whose
\* field_groups are the other names, in order, as resolved in the table
\* context; a name that does not resolve there fails the compilation.
C7_ExplicitGroups ==
    (Compiled /\ AliasesCompile /\ select.groups # PyNone)
        => LET table_ctx == CompiledTable.type_ctx
               expected ==
                   GroupSet(Range(GroupNames) \cap Range(StageAliases.val),
                            [i \in 1..Len(FieldGroupNames) |->
                                column_ref_for_name(table_ctx,
                                                    FieldGroupNames[i])])
               resolves ==
                   \A i \in 1..Len(FieldGroupNames) :
                       ~IsErr(column_ref_for_name(table_ctx, FieldGroupNames[i]))
           IN /\ resolves => StageGroups = expected
              /\ (Succeeded /\ resolves) => result.group_set = expected
              /\ ~resolves => IsErr(StageGroups) /\ FailsWithCompileError

\* GROUP BY value, value2 where value2 is both an alias of the select list
\* and a column of the table: value2 is an alias group, value a field group.
C7_Witness ==
    /\ Succeeded
    /\ select.groups = Groups(<<Col("value"), Col("value2")>>)
    /\ result.group_set =
         GroupSet({<<"value2">>}, <<ColumnRef(<<"table1">>, <<"value">>, INT)>>)
    /\ \E i \in 1..Len(result.table.type_ctx.columns) :
          result.table.type_ctx.columns[i].column = <<"value2">>

(***************************************************************************)
(* C8                                                                      *)
(***************************************************************************)
\* The pairs (compiled argument, written argument) of the aggregate-call
\* nodes of a compiled expression
RECURSIVE AggregateArgs(_, _)
AggregateArgs(typed, ast) ==
    IF ast.kind = "UnaryOperator" THEN AggregateArgs(typed.args[1], ast.expr)
    ELSE IF ast.kind = "BinaryOperator"
    THEN AggregateArgs(typed.args[1], ast.left)
            \cup AggregateArgs(typed.args[2], ast.right)
    ELSE IF ast.kind = "FunctionCall"
    THEN (IF typed.kind = "AggregateFunctionCall"
          THEN {<<typed.args[i], ast.args[i]>> : i \in 1..Len(ast.args)}
          ELSE {})
         \cup UNION {AggregateArgs(typed.args[i], ast.args[i]) :
                        i \in 1..Len(ast.args)}
    ELSE {}

\* A context without columns whose ambient aggregate context is ctx
OnlyAggregatesOf(ctx) == TypeContext(<<>>, PyNone, ctx)

\* C8: in a grouped or implicitly aggregate select, the arguments of the
\* innermost aggregate calls of a field that is not grouped are resolved in
\* the table context: every column of the table expression can be used
\* there, group key or not, with the table's qualifier and declared type.
C8_AggregateArguments ==
    (Compiled /\ AliasesCompile /\ ~IsErr(StageGroups) /\ StageGroups # PyNone)
        => LET table_ctx == CompiledTable.type_ctx
               input == ExpandedFields.val
               NotGrouped(i) ==
                   StageAliases.val[i] \notin StageGroups.alias_groups
           IN /\ Succeeded =>
                    \A i \in 1..Len(input) :
                        NotGrouped(i) =>
                            \A p \in AggregateArgs(result.select_fields[i].expr,
                                                   input[i].expr) :
                                p[1] = compile_expr(p[2], table_ctx)
              /\ (\A i \in 1..Len(input) :
                     /\ NotGrouped(i)
                     /\ is_innermost_aggregate(input[i].expr)
                     /\ ~IsErr(compile_expr(input[i].expr,
                                            OnlyAggregatesOf(table_ctx))))
                    => Succeeded

\* GROUP BY value with MAX(value2): value2 is no group key, and is resolved
\* as table1.value2 with its declared type.
C8_Witness ==
    /\ Succeeded
    /\ result.group_set # PyNone
    /\ result.group_set.alias_groups = {<<"value">>}
    /\ result.group_set.field_groups = <<>>
    /\ \E i \in 1..Len(result.select_fields) :
          /\ result.select_fields[i].alias \notin result.group_set.alias_groups
          /\ result.select_fields[i].expr.kind = "AggregateFunctionCall"
          /\ result.select_fields[i].expr.args =
                <<ColumnRef(<<"table1">>, <<"value2">>, TQ_STRING)>>

(***************************************************************************)
(* C9                                                                      *)
(***************************************************************************)
\* The name is a grouping alias or names a field-group column
IsGroupKey(name, group_set) ==
    \/ name \in group_set.alias_groups
    \/ \E i \in 1..Len(group_set.field_groups) :
          \/ name = group_set.field_groups[i].column
          \/ name = group_set.field_groups[i].table
                        \o group_set.field_groups[i].column

RECURSIVE Comparisons(_)
Comparisons(expr) ==
    IF expr.kind = "BinaryOperator" /\ expr.operator = "and"
    THEN Comparisons(expr.left) \o Comparisons(expr.right)
    ELSE <<expr>>

\* The alias of one side of a join
SideAlias(table_expr) ==
    IF table_expr.alias # None THEN table_expr.alias ELSE table_expr.name

\* The last segment of a written column name
Unqualified(name) == <<name[Len(name)]>>

IsJoinQuery == select.table_expr # PyNone /\ select.table_expr.kind = "Join"

\* C11: in every compiled Join the condition list has one pair per '='
\* comparison of the ON conjunction, in source order; the first column of
\* every pair carries the left alias and the second the right alias, and the
\* two are the columns the comparison names, in whichever order it names them.
C11_JoinFieldsNormalized ==
    (Compiled /\ IsJoinQuery /\ ~IsErr(CompiledTable))
        => LET written == Comparisons(select.table_expr.condition)
               pairs == CompiledTable.conditions
               alias1 == SideAlias(select.table_expr.table1)
               alias2 == SideAlias(select.table_expr.table2)
           IN /\ Len(pairs) = Len(written)
              /\ \A i \in 1..Len(pairs) :
                    /\ written[i].kind = "BinaryOperator"
                    /\ written[i].operator = "="
                    /\ pairs[i].column1.table = alias1
                    /\ pairs[i].column2.table = alias2
                    /\ \/ /\ pairs[i].column1.column
                                = Unqualified(written[i].left.name)
                          /\ pairs[i].column2.column
                                = Unqualified(written[i].right.name)
                       \/ /\ pairs[i].column1.column
                                = Unqualified(written[i].right.name)
                          /\ pairs[i].column2.column
                                = Unqualified(written[i].left.name)
              /\ Succeeded => result.table.conditions = pairs

\* ON t1.value = t2.value AND t2.value3 = t1.value2: the second pair is
\* turned round.
C11_Witness ==
    /\ Succeeded
    /\ IsJoinQuery
    /\ select.table_expr.condition
          = And(Eq(QCol("t1", "value"), QCol("t2", "value")),
                Eq(QCol("t2", "value3"), QCol("t1", "value2")))
    /\ result.table.conditions
          = <<JoinFields(ColumnRef(<<"t1">>, <<"value">>, INT),
                         ColumnRef(<<"t2">>, <<"value">>, INT)),
              JoinFields(ColumnRef(<<"t1">>, <<"value2">>, TQ_STRING),
                         ColumnRef(<<"t2">>, <<"value3">>, FLOAT))>>

(***************************************************************************)
(* C12                                                                     *)
(***************************************************************************)
\* The written name is a column of the side: bare, or under the side's alias
NamesColumnOf(name, alias, ctx) ==
    \E i \in 1..Len(ctx.columns) :
        name \in {ctx.columns[i].column, alias \o ctx.columns[i].column}

\* A conjunction of '=' comparisons between two columns, one of each side
RECURSIVE IsCrossSideConjunction(_, _, _, _, _)
IsCrossSideConjunction(expr, alias1, ctx1, alias2, ctx2) ==
    IF expr.kind = "BinaryOperator" /\ expr.operator = "and"
    THEN /\ IsCrossSideConjunction(expr.left, alias1, ctx1, alias2, ctx2)
         /\ IsCrossSideConjunction(expr.right, alias1, ctx1, alias2, ctx2)
    ELSE /\ expr.kind = "BinaryOperator"
         /\ expr.operator = "="
         /\ expr.left.kind = "ColumnId"
         /\ expr.right.kind = "ColumnId"
         /\ \/ /\ NamesColumnOf(expr.left.name, alias1, ctx1)
               /\ NamesColumnOf(expr.right.name, alias2, ctx2)
            \/ /\ NamesColumnOf(expr.left.name, alias2, ctx2)
               /\ NamesColumnOf(expr.right.name, alias1, ctx1)

JoinedLeft == compile_joined_table(select.table_expr.table1)
JoinedRight == compile_joined_table(select.table_expr.table2)

\* C12: when both sides of a join compile, an ON expression that is not a
\* conjunction of '=' comparisons between two columns, one of each side,
\* makes the compilation fail with a compile error.
C12_InvalidJoinCondition ==
    (/\ Compiled
     /\ IsJoinQuery
     /\ ~IsErr(JoinedLeft)
     /\ ~IsErr(JoinedRight)
     /\ ~IsCrossSideConjunction(select.table_expr.condition,
            JoinedLeft.alias, JoinedLeft.compiled_table.type_ctx,
            JoinedRight.alias, JoinedRight.compiled_table.type_ctx))
        => /\ IsErr(result)
           /\ result.exc = "CompileError"
           /\ result.what \in {"InvalidJoinCondition", "NotFound"}

\* One invalid conjunct among valid ones
C12_Witness ==
    /\ IsJoinQuery
    /\ select.table_expr.condition
          = And(Eq(QCol("t1", "value"), QCol("t2", "value")),
                BinaryOperator("<", QCol("t1", "value"), QCol("t2", "value")))
    /\ result = CompileError("InvalidJoinCondition")

(***************************************************************************)
(* C13                                                                     *)
(***************************************************************************)
\* The number of expanded fields that come before the field written at
\* position i, when a star stands for n fields
FieldsBefore(select_fields, i, n) ==
    Cardinality({j \in 1..(i - 1) : select_fields[j].kind # "Star"})
        + n * Cardinality({j \in 1..(i - 1) : select_fields[j].kind = "Star"})

\* C13: over a table expression that is not a join, every star is replaced,
\* where it stands, by one field per entry of the table context in context
\* order, each a reference to the column with the bare column name as its
\* alias; the other fields keep their places relative to them.  The compiled
\* select has these fields, under these aliases.
C13_StarExpansion ==
    (Compiled /\ ~IsErr(CompiledTable) /\ CompiledTable.kind # "Join")
        => LET columns == CompiledTable.type_ctx.columns
               n == Len(columns)
               written == select.select_fields
               expanded == expand_select_fields(written, CompiledTable)
               Before(i) == FieldsBefore(written, i, n)
           IN /\ ~IsErr(expanded)
              /\ Len(expanded.val) = Before(Len(written) + 1)
              /\ \A i \in 1..Len(written) :
                    IF written[i].kind = "Star"
                    THEN \A k \in 1..n :
                            /\ expanded.val[Before(i) + k].expr.kind = "ColumnId"
                            /\ expanded.val[Before(i) + k].expr.name
                                  = (IF columns[k].table # None
                                     THEN columns[k].table \o columns[k].column
                                     ELSE columns[k].column)
                            /\ expanded.val[Before(i) + k].alias
                                  = columns[k].column
                    ELSE expanded.val[Before(i) + 1] = written[i]
              /\ Succeeded =>
                    /\ Len(result.select_fields) = Len(expanded.val)
                    /\ \A i \in 1..Len(written) :
                          written[i].kind = "Star" =>
                            \A k \in 1..n :
                              LET field == result.select_fields[Before(i) + k]
                              IN /\ field.alias = columns[k].column
                                 /\ field.expr.kind = "ColumnRef"
                                 /\ field.expr.column = columns[k].column
                                 /\ field.expr.type = columns[k].type

\* SELECT 1, *, value + 1 AS foo FROM table1
C13_Witness ==
    /\ Succeeded
    /\ select.table_expr = Table1
    /\ Len(select.select_fields) = 3
    /\ select.select_fields[1].kind = "SelectField"
    /\ select.select_fields[2].kind = "Star"
    /\ select.select_fields[3].kind = "SelectField"
    /\ [i \in 1..4 |-> result.select_fields[i].alias]
          = << <<"f0_">>, <<"value">>, <<"value2">>, <<"foo">> >>
    /\ result.select_fields[2].expr
          = ColumnRef(<<"table1">>, <<"value">>, INT)
    /\ result.select_fields[3].expr
          = ColumnRef(<<"table1">>, <<"value2">>, TQ_STRING)

(***************************************************************************)
(* C14                                                                     *)
(***************************************************************************)
\* C14: every entry of a join's context carries a qualifier, the left side's
\* entries come before the right side's, and over a join every star is
\* replaced, where it stands, by one field per entry in that order, whose
\* alias is qualifier.name; the expansion does not fail.
C14_JoinStarExpansion ==
    (Compiled /\ ~IsErr(CompiledTable) /\ CompiledTable.kind = "Join")
        => LET columns == CompiledTable.type_ctx.columns
               n == Len(columns)
               written == select.select_fields
               expanded == expand_select_fields(written, CompiledTable)
               Before(i) == FieldsBefore(written, i, n)
           IN /\ columns = CompiledTable.table1.type_ctx.columns
                                \o CompiledTable.table2.type_ctx.columns
              /\ \A k \in 1..n : columns[k].table # None
              /\ ~IsErr(expanded)
              /\ Len(expanded.val) = Before(Len(written) + 1)
              /\ \A i \in 1..Len(written) :
                    IF written[i].kind = "Star"
                    THEN \A k \in 1..n :
                            expanded.val[Before(i) + k]
                              = AstSelectField(
                                    ColumnId(columns[k].table
                                                \o columns[k].column),
                                    columns[k].table \o columns[k].column)
                    ELSE expanded.val[Before(i) + 1] = written[i]
              /\ Succeeded =>
                    /\ Len(result.select_fields) = Len(expanded.val)
                    /\ \A i \in 1..Len(written) :
                          written[i].kind = "Star" =>
                            \A k \in 1..n :
                              result.select_fields[Before(i) + k].alias
                                = columns[k].table \o columns[k].column

\* SELECT * FROM table1 t1 JOIN (SELECT * FROM table2) t2 ON ...
C14_Witness ==
    /\ Succeeded
    /\ IsJoinQuery
    /\ select.table_expr.table2.kind = "Select"
    /\ select.select_fields = <<Star>>
    /\ [i \in 1..4 |-> result.select_fields[i].alias]
          = << <<"t1", "value">>, <<"t1", "value2">>,
               <<"t2", "value">>, <<"t2", "value3">> >>
    /\ result.select_fields[4].expr = ColumnRef(<<"t2">>, <<"value3">>, FLOAT)

(***************************************************************************)
(* C15                                                                     *)
(***************************************************************************)
\* C15, as stated: a query whose FROM names a table that the catalog does
\* not hold fails with the compile error of kind NotFound.
C15_MissingTableIsNotFound ==
    (/\ Compiled
     /\ select.table_expr # PyNone
     /\ select.table_expr.kind = "TableId"
     /\ select.table_expr.name \notin DOMAIN tables_by_name)
        => result = CompileError("NotFound")

(***************************************************************************)
(* C16                                                                     *)
(***************************************************************************)
\* C16, as stated: whenever the type check of a function, of a unary
\* operator or of a binary operator rejects the argument types, the failure
\* of the compilation is the compile error (of kind TypeError).
C16_TypeErrorIsCompileError ==
    (Compiled /\ IsErr(result) /\ result.what = "TypeError")
        => result.exc = "CompileError"

(***************************************************************************)
(* C17                                                                     *)
(***************************************************************************)
\* The innermost aggregate calls of a syntax tree
InnermostAggregates(expr) ==
    {n \in SubExprs(expr) :
        /\ IsAggregateCall(n)
        /\ \A i \in 1..Len(n.args) : ~ContainsAggregateCall(n.args[i])}

\* C17: an innermost aggregate call compiled in a context without aggregate
\* context is the compile error 'unexpected aggregate'.  The table context
\* is such a context: a select whose WHERE clause holds an aggregate call
\* fails with a compile error, and so does a select with a field that holds
\* an aggregate call and whose alias is an alias group of GROUP BY.
C17_UnboundAggregate ==
    (Compiled /\ ~IsErr(CompiledTable)
        /\ CompiledTable.type_ctx.aggregate_context = PyNone)
        => LET table_ctx == CompiledTable.type_ctx
               Unbound(expr) ==
                   \A n \in InnermostAggregates(expr) :
                       compile_expr(n, table_ctx)
                           = CompileError("UnboundAggregate")
           IN /\ (select.where_expr # PyNone
                        /\ ContainsAggregateCall(select.where_expr))
                    => /\ Unbound(select.where_expr)
                       /\ IsErr(CompiledWhere)
                       /\ FailsWithCompileError
              /\ (AliasesCompile /\ ~IsErr(StageGroups) /\ StageGroups # PyNone)
                    => \A i \in 1..Len(ExpandedFields.val) :
                          (/\ StageAliases.val[i] \in StageGroups.alias_groups
                           /\ ContainsAggregateCall(ExpandedFields.val[i].expr))
                            => /\ Unbound(ExpandedFields.val[i].expr)
                               /\ FailsWithCompileError

\* SELECT SUM(value) AS foo FROM table1 GROUP BY foo
C17_Witness ==
    /\ select.table_expr = Table1
    /\ select.where_expr = PyNone
    /\ select.select_fields = <<AstSelectField(Sum(Col("value")), <<"foo">>)>>
    /\ select.groups = Groups(<<Col("foo")>>)
    /\ result = CompileError("UnboundAggregate")

(***************************************************************************)
(* C18                                                                     *)
(***************************************************************************)
\* The context in which the fields that are not grouped are compiled
StageAggregateContext ==
    compile_group_fields(ExpandedFields.val, StageAliases.val, StageGroups,
                         CompiledTable.type_ctx)

\* The function calls written in the select list and in the WHERE clause
WrittenCalls ==
    {n \in UNION ({SubExprs(ExpandedFields.val[i].expr) :
                      i \in 1..Len(ExpandedFields.val)}
                  \cup {IF select.where_expr = PyNone THEN {}
                        ELSE SubExprs(select.where_expr)}) :
        n.kind = "FunctionCall"}

\* The call is compiled in ctx as the claim says: an aggregate call over
\* arguments resolved in the aggregate context of ctx when its function is an
\* aggregate function and no argument holds an aggregate call, an ordinary
\* call over arguments resolved in ctx otherwise.
CompiledAsSpecified(n, ctx) ==
    LET aggregate ==
            /\ n.name \in AggregateFuncs
            /\ \A i \in 1..Len(n.args) : ~ContainsAggregateCall(n.args[i])
        sub_ctx == IF aggregate THEN ctx.aggregate_context ELSE ctx
        args == [i \in 1..Len(n.args) |-> compile_expr(n.args[i], sub_ctx)]
        type == check_types(get_func(n.name),
                            [i \in 1..Len(args) |-> args[i].type])
    IN (/\ aggregate => ctx.aggregate_context # PyNone
        /\ \A i \in 1..Len(args) : ~IsErr(args[i])
        /\ ~IsErr(type))
          => compile_expr(n, ctx)
               = [kind |-> IF aggregate THEN "AggregateFunctionCall"
                           ELSE "FunctionCall",
                  func |-> get_func(n.name), args |-> args, type |-> type.val]

FamilyType(value) ==
    CASE value.py = "bool" -> BOOL
      [] value.py = "int" -> INT
      [] value.py = "float" -> FLOAT
      [] value.py = "str" -> TQ_STRING
      [] value.py = "NoneType" -> NONETYPE

\* C19: every written literal compiles to a literal of the same value whose
\* type is that of the value's family, true and false being boolean; the
\* compiled select holds these literals.
C19_LiteralTypes ==
    (Compiled /\ AliasesCompile)
        => LET written == ExpandedFields.val
               Typed(n) == Literal(n.value, FamilyType(n.value))
           IN /\ \A i \in 1..Len(written) :
                    \A n \in SubExprs(written[i].expr) :
                        n.kind = "Literal" =>
                            compile_expr(n, CompiledTable.type_ctx) = Typed(n)
              /\ Succeeded =>
                    /\ \A i \in 1..Len(written) :
                          written[i].expr.kind = "Literal" =>
                            result.select_fields[i].expr = Typed(written[i].expr)
                    /\ (select.where_expr # PyNone
                            /\ select.where_expr.kind = "Literal")
                          => result.where_expr = Typed(select.where_expr)

\* SELECT true, 1.5 FROM table1
C19_Witness ==
    /\ Succeeded
    /\ Len(result.select_fields) = 2
    /\ result.select_fields[1].expr = Literal(PyBool(TRUE), BOOL)
    /\ result.select_fields[2].expr = Literal(PyFloat("1.5"), FLOAT)

(***************************************************************************)
(* C20                                                                     *)
(***************************************************************************)
IsSubqueryQuery ==
    select.table_expr # PyNone /\ select.table_expr.kind = "Select"

\* The nested select, compiled on its own
CompiledSubquery == compile_select(select.table_expr)

RECURSIVE ColumnRefs(_)
ColumnRefs(expr) ==
    IF expr.kind = "ColumnRef" THEN {expr}
    ELSE IF expr.kind \in {"FunctionCall", "AggregateFunctionCall"}
    THEN UNION {ColumnRefs(expr.args[i]) : i \in 1..Len(expr.args)}
    ELSE {}

\* The fields of a compiled select that were compiled against its table
\* context: all of them without grouping, the alias groups otherwise
TableContextFields(compiled) ==
    {i \in 1..Len(compiled.select_fields) :
        \/ compiled.group_set = PyNone
        \/ compiled.select_fields[i].alias \in compiled.group_set.alias_groups}

\* The base columns referenced in these fields
ReferencedBaseColumns(compiled) ==
    UNION {ColumnRefs(compiled.select_fields[i].expr) :
              i \in TableContextFields(compiled)}

\* The output column of this name, as a column reference
OutputColumn(compiled, name) ==
    LET k == CHOOSE k \in 1..Len(compiled.type_ctx.columns) :
                 compiled.type_ctx.columns[k].column = name
    IN ColumnRef(None, name, compiled.type_ctx.columns[k].type)
IsOutputColumn(compiled, name) ==
    \E k \in 1..Len(compiled.type_ctx.columns) :
        compiled.type_ctx.columns[k].column = name

\* C21: over a subquery without alias that compiles, every base column
\* (q, c, type) referenced in a field the subquery compiled against its
\* table context resolves, by its qualified name q.c, to the reference
\* (q, c, type) when the subquery has no output field named q.c, and to that
\* output field when it has one; an output field named c likewise wins over
\* the base column for the bare name c; the outer query's fields that name
\* q.c are compiled to these references.
C21_ImplicitColumn ==
    (/\ Compiled
     /\ IsSubqueryQuery
     /\ select.table_expr.alias = None
     /\ ~IsErr(CompiledSubquery))
        => \A ref \in ReferencedBaseColumns(CompiledSubquery) :
              ref.table # None =>
                LET table_ctx == CompiledTable.type_ctx
                    qualified == ref.table \o ref.column
                    expected ==
                        IF IsOutputColumn(CompiledSubquery, qualified)
                        THEN OutputColumn(CompiledSubquery, qualified)
                        ELSE ref
                IN /\ column_ref_for_name(table_ctx, qualified) = expected
                   /\ IsOutputColumn(CompiledSubquery, ref.column)
                        => column_ref_for_name(table_ctx, ref.column)
                             = OutputColumn(CompiledSubquery, ref.column)
                   /\ Succeeded =>
                        \A i \in 1..Len(ExpandedFields.val) :
                            ExpandedFields.val[i].expr = ColumnId(qualified)
                                => result.select_fields[i].expr = expected

\* SELECT table1.value, value AS v FROM (SELECT value + 1.5 AS value FROM
\* table1): the qualified name reaches the base column, which is not
\* selected, and the bare name the output field.
C21_Witness ==
    /\ Succeeded
    /\ IsSubqueryQuery
    /\ select.table_expr.alias = None
    /\ result.table.type_ctx.columns = <<Entry(None, <<"value">>, FLOAT)>>
    /\ result.select_fields
          = <<SelectField(ColumnRef(<<"table1">>, <<"value">>, INT),
                          <<"table1", "value">>),
              SelectField(ColumnRef(None, <<"value">>, FLOAT), <<"v">>)>>

(***************************************************************************)
(* C22                                                                     *)
(***************************************************************************)
IsUnionQuery ==
    select.table_expr # PyNone /\ select.table_expr.kind = "TableUnion"

\* The tables of the FROM list, each compiled on its own
CompiledInputs ==
    [i \in 1..Len(select.table_expr.tables) |->
        compile_table_expr(select.table_expr.tables[i])]

RECURSIVE Concat(_)
Concat(seqs) ==
    IF seqs = <<>> THEN <<>> ELSE Head(seqs) \o Concat(Tail(seqs))

\* The position at which a column name appears first
FirstIndex(columns, name) ==
    CHOOSE k \in 1..Len(columns) :
        /\ columns[k].column = name
        /\ \A j \in 1..(k - 1) : columns[j].column # name

\* C22: the result context of a comma-separated FROM list that compiles
\* holds each distinct column name of the input tables exactly once, in the
\* order of first appearance, without qualifier and with the column's type;
\* a name resolved against it, in the context and in the compiled select,
\* is a column reference without qualifier; the compiled union keeps the
\* input tables in order, each as it compiles on its own, a base table with
\* every column qualified by its alias or name.
C22_UnionContext ==
    (Compiled /\ IsUnionQuery /\ ~IsErr(CompiledTable))
        => LET all == Concat([i \in 1..Len(CompiledInputs) |->
                                 CompiledInputs[i].type_ctx.columns])
               columns == CompiledTable.type_ctx.columns
               tables == select.table_expr.tables
           IN /\ {columns[k].column : k \in 1..Len(columns)}
                    = {all[k].column : k \in 1..Len(all)}
              /\ \A k, l \in 1..Len(columns) :
                    /\ columns[k].column = columns[l].column => k = l
                    /\ k < l => FirstIndex(all, columns[k].column)
                                  < FirstIndex(all, columns[l].column)
              /\ \A k \in 1..Len(columns) :
                    /\ columns[k].table = None
                    /\ columns[k].type
                          = all[FirstIndex(all, columns[k].column)].type
                    /\ column_ref_for_name(CompiledTable.type_ctx,
                                           columns[k].column)
                          = ColumnRef(None, columns[k].column, columns[k].type)
              /\ CompiledTable.kind = "TableUnion"
              /\ CompiledTable.tables = CompiledInputs
              /\ \A i \in 1..Len(tables) :
                    tables[i].name \in {<<"table1">>, <<"table2">>} =>
                        \A k \in 1..Len(CompiledInputs[i].type_ctx.columns) :
                            CompiledInputs[i].type_ctx.columns[k].table
                                = IF tables[i].alias # None
                                  THEN tables[i].alias ELSE tables[i].name
              /\ Succeeded =>
                    \A ref \in ColumnRefs(result.where_expr)
                          \cup UNION {ColumnRefs(result.select_fields[i].expr) :
                                         i \in 1..Len(result.select_fields)} :
                        ref.table = None

\* SELECT value + value3 AS foo, * FROM table2, table1, table2 t2
C22_Witness ==
    /\ Succeeded
    /\ IsUnionQuery
    /\ Len(result.table.tables) = 3
    /\ result.table.type_ctx.columns
          = <<Entry(None, <<"value">>, INT), Entry(None, <<"value3">>, FLOAT),
              Entry(None, <<"value2">>, TQ_STRING)>>
    /\ result.table.tables[3].type_ctx.columns[1].table = <<"t2">>
    /\ Len(result.select_fields) = 4
    /\ result.select_fields[4].expr = ColumnRef(None, <<"value2">>, TQ_STRING)

(***************************************************************************)
(* C23                                                                     *)
(***************************************************************************)
IsViewQuery ==
    /\ select.table_expr # PyNone
    /\ select.table_expr.kind = "TableId"
    /\ select.table_expr.name \in DOMAIN tables_by_name
    /\ tables_by_name[select.table_expr.name].kind = "View"

\* The stored query of the referenced view: its tree, and what it compiles to
ViewAst == parse_text(tables_by_name[select.table_expr.name].query)
CompiledView == compile_select(ViewAst)

\* C23: a reference to a view whose stored query compiles is compiled to
\* that query's Select, with a result context whose entries are the query's
\* output columns, in order and with their types, each qualified by the
\* reference's alias, or by the view's name without one; both the qualified
\* and the bare name of an output column resolve to that qualified column.
\* A subquery with the same alias over the same query compiles to the same
\* fields, but the entries of its context have no qualifier and the bare
\* name resolves to the column without qualifier.
C23_ViewAlias ==
    (Compiled /\ IsViewQuery /\ ~IsErr(CompiledView))
        => LET A == IF select.table_expr.alias # None
                    THEN select.table_expr.alias ELSE select.table_expr.name
               outputs == CompiledView.type_ctx.columns
               view_ctx == CompiledTable.type_ctx
               subquery == compile_table_expr([ViewAst EXCEPT !.alias = A])
           IN /\ ~IsErr(CompiledTable)
              /\ CompiledTable = with_type_ctx(CompiledView, view_ctx)
              /\ view_ctx.columns
                    = [k \in 1..Len(outputs) |->
                          Entry(A, outputs[k].column, outputs[k].type)]
              /\ ~IsErr(subquery)
              /\ subquery.select_fields = CompiledTable.select_fields
              /\ Len(subquery.type_ctx.columns) = Len(outputs)
              /\ \A k \in 1..Len(outputs) :
                    LET c == outputs[k].column
                        Qualified == ColumnRef(A, c, outputs[k].type)
                    IN /\ column_ref_for_name(view_ctx, A \o c) = Qualified
                       /\ column_ref_for_name(view_ctx, c) = Qualified
                       /\ subquery.type_ctx.columns[k]
                             = Entry(None, c, outputs[k].type)
                       /\ column_ref_for_name(subquery.type_ctx, c)
                             = ColumnRef(None, c, outputs[k].type)

\* SELECT v.s, * FROM view2 v
C23_Witness ==
    /\ Succeeded
    /\ IsViewQuery
    /\ select.table_expr.alias = <<"v">>
    /\ result.table.type_ctx.columns
          = <<Entry(<<"v">>, <<"value">>, INT), Entry(<<"v">>, <<"s">>, TQ_STRING)>>
    /\ result.select_fields
          = <<SelectField(ColumnRef(<<"v">>, <<"s">>, TQ_STRING), <<"v", "s">>),
              SelectField(ColumnRef(<<"v">>, <<"value">>, INT), <<"value">>),
              SelectField(ColumnRef(<<"v">>, <<"s">>, TQ_STRING), <<"s">>)>>

(***************************************************************************)
(* C24                                                                     *)
(***************************************************************************)
\* The ON expressions that differ from this one in the order of the operands
\* of one '=' comparison
RECURSIVE SwapOne(_)
SwapOne(expr) ==
    IF expr.kind # "BinaryOperator" THEN {}
    ELSE IF expr.operator = "="
    THEN {BinaryOperator("=", expr.right, expr.left)}
    ELSE IF expr.operator = "and"
    THEN {BinaryOperator("and", l, expr.right) : l \in SwapOne(expr.left)}
            \cup {BinaryOperator("and", expr.left, r) :
                     r \in SwapOne(expr.right)}
    ELSE {}

\* compile_join_fields on the two sides of the chosen join
JoinFieldsOf(condition) ==
    compile_join_fields(JoinedLeft.compiled_table.type_ctx,
                        JoinedRight.compiled_table.type_ctx,
                        JoinedLeft.alias, JoinedRight.alias, condition)

\* C24: when both sides of a join compile, the ON expression and every
\* expression obtained by swapping the operands of one of its '='
\* comparisons either both fail in compile_join_fields or both give the
\* same join-field list, the one of the compiled Join.
C24_SwapInvariant ==
    (/\ Compiled
     /\ IsJoinQuery
     /\ ~IsErr(JoinedLeft)
     /\ ~IsErr(JoinedRight))
        => /\ Succeeded
                 => JoinFieldsOf(select.table_expr.condition)
                       = Ok(result.table.conditions)
           /\ \A swapped \in SwapOne(select.table_expr.condition) :
                 \/ /\ IsErr(JoinFieldsOf(select.table_expr.condition))
                    /\ IsErr(JoinFieldsOf(swapped))
                 \/ JoinFieldsOf(swapped)
                       = JoinFieldsOf(select.table_expr.condition)

(***************************************************************************)
(* C25                                                                     *)
(***************************************************************************)
\* The column names written in an expression
Names(expr) == {n.name : n \in {m \in SubExprs(expr) : m.kind = "ColumnId"}}

\* The aliases of the written select list: explicit aliases and the names of
\* bare columns
SelectListAliases ==
    {field_alias(select.select_fields[i]) :
        i \in {j \in 1..Len(select.select_fields) :
                  select.select_fields[j].kind = "SelectField"}} \ {None}

\* The names of the WHERE clause that are select-list aliases and that the
\* table context does not know
AliasesInWhere ==
    {n \in Names(select.where_expr) \cap SelectListAliases :
        column_ref_for_name(CompiledTable.type_ctx, n)
            = CompileError("NotFound")}

HasWhereOverTable ==
    Compiled /\ ~IsErr(CompiledTable) /\ select.where_expr # PyNone

\* C25, as stated: a WHERE clause that names a select-list alias that is no
\* column of the table expression makes the select fail with NotFound.
C25_AliasInWhereIsNotFound ==
    (HasWhereOverTable /\ AliasesInWhere # {})
        => result = CompileError("NotFound")

\* C25, amended: the names of the WHERE clause are resolved in the table
\* context only.  The column references of a compiled filter are what the
\* table context gives for the written names, selected or not; a WHERE
\* clause that names a select-list alias that is no column of the table
\* expression makes the select fail, and the failure is NotFound unless a
\* sub-expression of the clause that names no such alias fails first.
C25_WhereInTableContext ==
    HasWhereOverTable
        => LET table_ctx == CompiledTable.type_ctx
               Resolved == {column_ref_for_name(table_ctx, n) :
                               n \in Names(select.where_expr)}
           IN /\ Succeeded => ColumnRefs(result.where_expr) = Resolved
              /\ AliasesInWhere # {}
                    => /\ IsErr(CompiledWhere)
                       /\ result = CompiledWhere
                       /\ \/ result = CompileError("NotFound")
                          \/ \E sub \in SubExprs(select.where_expr) :
                                /\ Names(sub) \cap AliasesInWhere = {}
                                /\ compile_expr(sub, table_ctx) = result

\* SELECT value + 1 AS foo FROM table1 WHERE value > 3 AND foo > 3
C25_Witness ==
    /\ select.table_expr = Table1
    /\ select.select_fields
          = <<AstSelectField(BinaryOperator("+", Col("value"), Lit(1)),
                             <<"foo">>)>>
    /\ select.where_expr
          = BinaryOperator("and", BinaryOperator(">", Col("value"), Lit(3)),
                                  BinaryOperator(">", Col("foo"), Lit(3)))
    /\ result = CompileError("NotFound")

(***************************************************************************)
(* C26                                                                     *)
(***************************************************************************)
\* The column references of a compiled expression, in the order in which
\* they are written
RECURSIVE ReferencesInOrder(_)
ReferencesInOrder(expr) ==
    IF expr.kind = "ColumnRef" THEN <<expr>>
    ELSE IF expr.kind \in {"FunctionCall", "AggregateFunctionCall"}
    THEN Concat([i \in 1..Len(expr.args) |-> ReferencesInOrder(expr.args[i])])
    ELSE <<>>

\* A sequence without the repetitions of earlier elements
RECURSIVE FirstOccurrences(_)
FirstOccurrences(seq) ==
    IF seq = <<>> THEN <<>>
    ELSE LET rest == FirstOccurrences(SubSeq(seq, 1, Len(seq) - 1))
             last == seq[Len(seq)]
         IN IF last \in Range(rest) THEN rest ELSE Append(rest, last)

\* The references in the fields compiled against the table context
TableContextReferences(compiled) ==
    Concat([i \in 1..Len(compiled.select_fields) |->
               IF i \in TableContextFields(compiled)
               THEN ReferencesInOrder(compiled.select_fields[i].expr)
               ELSE <<>>])

\* C26: the implicit column context of a compiled Select's result context
\* holds exactly the base columns (qualifier, name, type) referenced in the
\* select fields compiled against the table context (all fields without
\* grouping, the alias-group fields otherwise), each once, in the order of
\* first reference; a column referenced only in WHERE or only in a field
\* compiled against the aggregate context is not in it.
C26_ImplicitColumnContext ==
    Succeeded
        => LET implicit == result.type_ctx.implicit_column_context
               used == FirstOccurrences(TableContextReferences(result))
           IN /\ implicit # PyNone
              /\ implicit.columns
                    = [k \in 1..Len(used) |->
                          Entry(used[k].table, used[k].column, used[k].type)]

\* SELECT value2, SUM(value) AS foo FROM table1 GROUP BY value2
C26_Witness ==
    /\ Succeeded
    /\ result.group_set # PyNone
    /\ result.group_set.alias_groups = {<<"value2">>}
    /\ result.type_ctx.implicit_column_context.columns
          = <<Entry(<<"table1">>, <<"value2">>, TQ_STRING)>>
    /\ result.select_fields[2].expr
          = AggregateFunctionCall(Function("func", "sum"),
                <<ColumnRef(<<"table1">>, <<"value">>, INT)>>, INT)

(***************************************************************************)
(* C27                                                                     *)
(***************************************************************************)
IsAnyJoinQuery ==
    select.table_expr # PyNone /\ select.table_expr.kind \in {"Join", "CrossJoin"}

\* The entries of a context, under this qualifier
QualifiedBy(alias, ctx) ==
    [k \in 1..Len(ctx.columns) |->
        Entry(alias, ctx.columns[k].column, ctx.columns[k].type)]

RecursionLimit == 4

Frame(ast) == [select |-> ast, k |-> 0]
Done == [kind |-> "Done"]

IsView(name) ==
    /\ name \in DOMAIN tables_by_name
    /\ tables_by_name[name].kind = "View"

\* The references to views in a table expression
RECURSIVE ViewCount(_)
ViewCount(table_expr) ==
    IF table_expr = PyNone THEN 0
    ELSE IF table_expr.kind = "TableId"
    THEN IF IsView(table_expr.name) THEN 1 ELSE 0
    ELSE IF table_expr.kind = "TableUnion"
    THEN LET Views[i \in 0..Len(table_expr.tables)] ==
                 IF i = 0 THEN 0
                 ELSE Views[i - 1] + ViewCount(table_expr.tables[i])
         IN Views[Len(table_expr.tables)]
    ELSE IF table_expr.kind \in {"Join", "CrossJoin"}
    THEN ViewCount(table_expr.table1) + ViewCount(table_expr.table2)
    ELSE ViewCount(table_expr.table_expr)

\* Where compile_table_expr stands after k of the view references have
\* returned: at the next view reference (kind "View"), at the exception of
\* a part compiled before it, or at its end (Done).  The parts are compiled
\* in the order of the code: the tables of a union from left to right, the
\* left side of a join before the right side, the table expression of a
\* subquery before the rest of it.
RECURSIVE Pending(_, _)
RECURSIVE PendingIn(_, _, _, _)
PendingIn(tables, k, i, joined) ==
    IF k >= ViewCount(tables[i]) THEN
        Try(IF joined THEN compile_joined_table(tables[i])
            ELSE compile_table_expr(tables[i]),
            LAMBDA compiled :
                PendingIn(tables, k - ViewCount(tables[i]), i + 1, joined))
    ELSE Pending(tables[i], k)
Pending(table_expr, k) ==
    IF k >= ViewCount(table_expr)
    THEN Try(compile_table_expr(table_expr), LAMBDA compiled : Done)
    ELSE IF table_expr.kind = "TableId"
    THEN [kind |-> "View", table_expr |-> table_expr]
    ELSE IF table_expr.kind = "TableUnion"
    THEN PendingIn(table_expr.tables, k, 1, FALSE)
    ELSE IF table_expr.kind \in {"Join", "CrossJoin"}
    THEN PendingIn(<<table_expr.table1, table_expr.table2>>, k, 1, TRUE)
    ELSE Pending(table_expr.table_expr, k)

Top == stack[Len(stack)]
TopPending == Pending(Top.select.table_expr, Top.k)
\* What the innermost compile_select does next: it calls compile_view_ref
\* (kind "View"), raises, or returns its Select
TopOutcome ==
    IF TopPending = Done THEN compile_select(Top.select) ELSE TopPending

\* Queries over views, followed call by call
StepTables ==
    { Table1,
      TableId(<<"nosuch">>, None),
      TableId(<<"view1">>, None),
      TableId(<<"view2">>, <<"v">>),
      TableId(<<"view3">>, None),
      TableId(<<"loop1">>, None),
      TableId(<<"loop2">>, None),
      TableId(<<"loop3">>, <<"x">>),
      TableId(<<"loop4">>, None),
      TableId(<<"loop5">>, None),
      AstTableUnion(<<TableId(<<"view1">>, None), TableId(<<"view3">>, None)>>),
      AstTableUnion(<<Table1, TableId(<<"loop1">>, None)>>),
      AstTableUnion(<<TableId(<<"nosuch">>, None), TableId(<<"loop1">>, None)>>),
      AstTableUnion(<<TableId(<<"view3">>, None), TableId(<<"loop2">>, None)>>),
      CrossJoin(TableId(<<"view2">>, None), TableId(<<"view1">>, None)),
      CrossJoin(Table1, TableId(<<"loop1">>, <<"a">>)),
      CrossJoin(AstSelect(<<AstSelectField(Col("nosuch"), None)>>, Table1,
                          PyNone, PyNone, PyNone, <<"s">>),
                TableId(<<"loop1">>, None)),
      AstJoin(TableId(<<"view1">>, <<"v1">>), TableId(<<"view3">>, <<"v3">>),
              Eq(QCol("v1", "foo"), QCol("v3", "foo")), FALSE),
      AstSelect(<<Star>>, TableId(<<"loop2">>, None), PyNone, PyNone, PyNone,
                <<"s">>),
      AstSelect(<<AstSelectField(Col("nosuch"), None)>>,
                TableId(<<"view3">>, None), PyNone, PyNone, PyNone, None) }
StepQueries ==
    { AstSelect(fields, table, PyNone, PyNone, PyNone, None) :
        fields \in { <<Star>>,
                     <<AstSelectField(Col("foo"), None)>>,
                     <<AstSelectField(Col("value"), <<"v">>)>>,
                     <<AstSelectField(Lit(1), None)>> },
        table \in StepTables }

\* The queries of the step specification: those over the looping views, and
\* single-field queries over views, subqueries and filters that the
\* whole-compilation specification is run on
StepInputs ==
    StepQueries \cup SubqueryQueries \cup WhereQueries
        \cup {query \in ViewQueries : Len(query.select_fields) = 1}

StepInit ==
    /\ select \in StepInputs
    /\ result = PyNone
    /\ aliases = PyNone
    /\ stack = <<Frame(select)>>

\* compile_view_ref that compiles the select it is in again, not the query
\* of the view
EnterView_Reenter ==
    /\ result = PyNone
    /\ TopPending.kind = "View"
    /\ Len(stack) < RecursionLimit
    /\ stack' = Append(stack, Frame(Top.select))
    /\ UNCHANGED <<select, result, aliases>>

\* compile_view_ref that refuses a view that is being compiled already
EnterView_CycleCheck ==
    /\ result = PyNone
    /\ TopPending.kind = "View"
    /\ Len(stack) < RecursionLimit
    /\ LET view == tables_by_name[TopPending.table_expr.name]
       IN IF \E i \in 1..Len(stack) :
                 stack[i].select = parse_text(view.query)
          THEN /\ result' = CompileError("CyclicView")
               /\ UNCHANGED stack
          ELSE /\ stack' = Append(stack, Frame(parse_text(view.query)))
               /\ UNCHANGED result
    /\ UNCHANGED <<select, aliases>>

\* compile_view_ref: the view's text is parsed and compile_select is called
\* on it
EnterView ==
    /\ result = PyNone
    /\ TopPending.kind = "View"
    /\ Len(stack) < RecursionLimit
    /\ LET view == tables_by_name[TopPending.table_expr.name]
       IN stack' = Append(stack, Frame(parse_text(view.query)))
    /\ UNCHANGED <<select, result, aliases>>

\* The call of compile_select that exceeds the interpreter's recursion limit
\* raises RuntimeError, which nothing in the compiler catches
RecursionLimitExceeded ==
    /\ result = PyNone
    /\ TopPending.kind = "View"
    /\ Len(stack) >= RecursionLimit
    /\ result' = Error("RuntimeError", "maximum recursion depth exceeded")
    /\ UNCHANGED <<select, aliases, stack>>

\* The compile_select of a view returns to compile_view_ref, and that to the
\* compile_table_expr of the caller
ReturnView ==
    /\ result = PyNone
    /\ Len(stack) > 1
    /\ TopOutcome.kind = "Select"
    /\ stack' = [SubSeq(stack, 1, Len(stack) - 1)
                    EXCEPT ![Len(stack) - 1].k = @ + 1]
    /\ UNCHANGED <<select, result, aliases>>

\* An exception leaves every frame: no caller catches it
Raise ==
    /\ result = PyNone
    /\ IsErr(TopOutcome)
    /\ result' = TopOutcome
    /\ UNCHANGED <<select, aliases, stack>>

\* compile_text returns the Select of the query
Return ==
    /\ result = PyNone
    /\ Len(stack) = 1
    /\ TopOutcome.kind = "Select"
    /\ result' = TopOutcome
    /\ UNCHANGED <<select, aliases, stack>>

StepNext ==
    \/ EnterView
    \/ RecursionLimitExceeded
    \/ ReturnView
    \/ Raise
    \/ Return

\* The compiler is one synchronous computation: it takes its next step
StepSpec == StepInit /\ [][StepNext]_vars /\ WF_vars(StepNext)

(***************************************************************************)
(* C28: views on a cycle                                                   *)
(***************************************************************************)
ViewNames == {name \in DOMAIN tables_by_name : IsView(name)}

\* The views a table expression refers to
RECURSIVE ViewRefs(_)
ViewRefs(table_expr) ==
    IF table_expr = PyNone THEN {}
    ELSE IF table_expr.kind = "TableId"
    THEN IF IsView(table_expr.name) THEN {table_expr.name} ELSE {}
    ELSE IF table_expr.kind = "TableUnion"
    THEN UNION {ViewRefs(table_expr.tables[i]) :
                    i \in 1..Len(table_expr.tables)}
    ELSE IF table_expr.kind \in {"Join", "CrossJoin"}
    THEN ViewRefs(table_expr.table1) \cup ViewRefs(table_expr.table2)
    ELSE ViewRefs(table_expr.table_expr)

StoredRefs(name) == ViewRefs(parse_text(tables_by_name[name].query).table_expr)

\* The views reached from a set of views in at most n steps of reference
RECURSIVE ReachedFrom(_, _)
ReachedFrom(names, n) ==
    IF n = 0 THEN names
    ELSE ReachedFrom(names \cup UNION {StoredRefs(name) : name \in names},
                     n - 1)
ViewsBelow(name) == ReachedFrom(StoredRefs(name), Cardinality(ViewNames))

\* The stored query of the view references that same view, directly or
\* through other views
IsCyclicView(name) == name \in ViewsBelow(name)
ReferencesCyclicView(ast) ==
    \E name \in ViewRefs(ast.table_expr) : IsCyclicView(name)

IsRecursionError(r) == IsErr(r) /\ r.exc = "RuntimeError"

\* C28 as written: a query that references a view whose stored query
\* references that same view, directly or through other views, produces
\* neither a Select nor a compile error.
C28_CyclicViewNeverCompiles ==
    ReferencesCyclicView(select) =>
        /\ result.kind # "Select"
        /\ ~(IsErr(result) /\ result.exc = "CompileError")

\* The compilation of the view's stored query reaches, before anything in
\* it fails, a reference to a view that is being inlined already or that
\* in its turn reaches one
RECURSIVE Recurs(_, _)
Recurs(name, inlined) ==
    LET next == Pending(parse_text(tables_by_name[name].query).table_expr, 0)
    IN /\ next.kind = "View"
       /\ \/ next.table_expr.name \in inlined \cup {name}
          \/ Recurs(next.table_expr.name, inlined \cup {name})

FramePending(i) == Pending(stack[i].select.table_expr, stack[i].k)
\* Frame i stands at a reference to a view that recurs
AtRecurringView(i) ==
    /\ FramePending(i).kind = "View"
    /\ Recurs(FramePending(i).table_expr.name, {})

\* No frame that stands at a recurring view sees its view return: every
\* frame above it is the stored query of the view its caller stands at and
\* stands at a recurring view itself, and the only exception is that of the
\* exhausted recursion limit, raised with the limit's frames on the stack
RecurringViewInlinedAgain ==
    \A i \in 1..Len(stack) :
        AtRecurringView(i) =>
            /\ result = PyNone \/ IsRecursionError(result)
            /\ IsRecursionError(result) => Len(stack) = RecursionLimit
            /\ \A j \in (i + 1)..Len(stack) :
                   /\ stack[j].select =
                          parse_text(tables_by_name[
                              FramePending(j - 1).table_expr.name].query)
                   /\ stack[j].k = 0
                   /\ AtRecurringView(j)

\* C28: once the compilation stands at a reference to a view whose stored
\* query leads back, with nothing failing on the way, to a view that is
\* being inlined, no cycle is detected: the view is inlined again at every
\* level, no frame returns, neither a Select nor a compile error is
\* produced, and the recursion goes on until the interpreter's recursion
\* limit ends it.
C28_RecurringViewNeverReturns ==
    /\ []RecurringViewInlinedAgain
    /\ (\E i \in 1..Len(stack) : AtRecurringView(i))
           ~> IsRecursionError(result)

\* loop2 and loop3 inline each other, three frames deep
C28_Witness ==
    /\ Len(stack) >= 4
    /\ stack[2].select = parse_text(LoopText2)
    /\ stack[3].select = parse_text(LoopText3)
    /\ stack[4].select = parse_text(LoopText2)
    /\ IsRecursionError(result)

(***************************************************************************)
(* C29: termination over acyclic views                                     *)
(***************************************************************************)
\* No view the query reaches refers back to itself
AcyclicQuery ==
    \A name \in ReachedFrom(ViewRefs(select.table_expr),
                            Cardinality(ViewNames)) : ~IsCyclicView(name)

\* The longest chain of views below a table expression (of acyclic views)
RECURSIVE ViewChain(_)
ViewChain(table_expr) ==
    LET Below(name) ==
            1 + ViewChain(parse_text(tables_by_name[name].query).table_expr)
        lengths == {0} \cup {Below(name) : name \in ViewRefs(table_expr)}
    IN CHOOSE n \in lengths : \A m \in lengths : m <= n

TypeNames == {BOOL, INT, FLOAT, TQ_STRING, NONETYPE}

\* Compiled values with nothing missing and no exception inside
RECURSIVE CompleteExpr(_)
CompleteExpr(expr) ==
    IF expr.kind \in {"Literal", "ColumnRef"} THEN expr.type \in TypeNames
    ELSE /\ expr.kind \in {"FunctionCall", "AggregateFunctionCall"}
         /\ expr.type \in TypeNames
         /\ \A i \in 1..Len(expr.args) : CompleteExpr(expr.args[i])
RECURSIVE CompleteContext(_)
CompleteContext(ctx) ==
    \/ ctx = PyNone
    \/ /\ ctx.kind = "TypeContext"
       /\ \A i \in 1..Len(ctx.columns) : ctx.columns[i].type \in TypeNames
       /\ CompleteContext(ctx.implicit_column_context)
       /\ CompleteContext(ctx.aggregate_context)
RECURSIVE CompleteSelect(_)
RECURSIVE CompleteTable(_)
CompleteTable(table) ==
    /\ table.kind \in {"NoTable", "Table", "TableUnion", "Join", "Select"}
    /\ CompleteContext(table.type_ctx)
    /\ table.kind = "TableUnion" =>
           \A i \in 1..Len(table.tables) : CompleteTable(table.tables[i])
    /\ table.kind = "Join" =>
           /\ CompleteTable(table.table1)
           /\ CompleteTable(table.table2)
           /\ \A i \in 1..Len(table.conditions) :
                  /\ CompleteExpr(table.conditions[i].column1)
                  /\ CompleteExpr(table.conditions[i].column2)
    /\ table.kind = "Select" => CompleteSelect(table)
CompleteSelect(compiled) ==
    /\ compiled.kind = "Select"
    /\ \A i \in 1..Len(compiled.select_fields) :
           /\ compiled.select_fields[i].kind = "SelectField"
           /\ CompleteExpr(compiled.select_fields[i].expr)
    /\ CompleteTable(compiled.table)
    /\ CompleteExpr(compiled.where_expr)
    /\ compiled.group_set = PyNone \/ compiled.group_set.kind = "GroupSet"
    /\ CompleteContext(compiled.type_ctx)
    /\ compiled.type_ctx # PyNone

\* The frames stay within the chain of views below the query, and what
\* compilation ends with is a complete Select or an exception, the one
\* compile_select gives for the query as a whole
BoundedAndComplete ==
    AcyclicQuery =>
        /\ Len(stack) <= 1 + ViewChain(select.table_expr)
        /\ result # PyNone =>
               /\ IsErr(result) \/ CompleteSelect(result)
               /\ ~IsRecursionError(result)
               /\ result = compile_text(select)

\* C29: over a catalog whose view references are acyclic, compilation
\* terminates, with either a complete Select or an error and never a
\* partial Select, and the depth of the recursion through views is bounded
\* by the length of the view chain.
C29_AcyclicTerminates ==
    /\ []BoundedAndComplete
    /\ (AcyclicQuery /\ result = PyNone) ~> (result # PyNone)

\* A query over view3, which selects from view1, has compiled: two views
\* were inlined and returned
C29_Witness ==
    /\ select.table_expr = TableId(<<"view3">>, None)
    /\ ViewChain(select.table_expr) = 2
    /\ stack = <<[select |-> select, k |-> 1]>>
    /\ CompleteSelect(result)

(***************************************************************************)
(* C30: aggregate-call nodes are not nested                                *)
(***************************************************************************)
\* The nodes of a compiled expression
RECURSIVE CompiledNodes(_)
CompiledNodes(expr) ==
    {expr} \cup
    (IF expr.kind \in {"FunctionCall", "AggregateFunctionCall"}
     THEN UNION {CompiledNodes(expr.args[i]) : i \in 1..Len(expr.args)}
     ELSE {})

\* No aggregate-call node of the tree has an aggregate-call node among its
\* descendants
NoNestedAggregateCall(expr) ==
    \A n \in CompiledNodes(expr) :
        n.kind = "AggregateFunctionCall" =>
            \A i \in 1..Len(n.args) :
                \A m \in CompiledNodes(n.args[i]) :
                    m.kind # "AggregateFunctionCall"

\* The expressions of a compiled Select: its fields, its filter, and those
\* of the selects in its table expression
RECURSIVE SelectExprs(_)
SelectExprs(table) ==
    IF table.kind = "Select"
    THEN {table.select_fields[i].expr : i \in 1..Len(table.select_fields)}
             \cup {table.where_expr} \cup SelectExprs(table.table)
    ELSE IF table.kind = "TableUnion"
    THEN UNION {SelectExprs(table.tables[i]) : i \in 1..Len(table.tables)}
    ELSE IF table.kind = "Join"
    THEN SelectExprs(table.table1) \cup SelectExprs(table.table2)
    ELSE {}

\* The compiled tree has the shape of the written one, and of its calls
\* those are aggregate-call nodes whose function is an aggregate function
\* and whose arguments hold no call of an aggregate function
RECURSIVE OnlyInnermostAggregate(_, _)
OnlyInnermostAggregate(written, compiled) ==
    IF written.kind = "UnaryOperator"
    THEN /\ compiled.kind = "FunctionCall"
         /\ Len(compiled.args) = 1
         /\ OnlyInnermostAggregate(written.expr, compiled.args[1])
    ELSE IF written.kind = "BinaryOperator"
    THEN /\ compiled.kind = "FunctionCall"
         /\ Len(compiled.args) = 2
         /\ OnlyInnermostAggregate(written.left, compiled.args[1])
         /\ OnlyInnermostAggregate(written.right, compiled.args[2])
    ELSE IF written.kind = "FunctionCall"
    THEN /\ compiled.kind =
                IF /\ written.name \in AggregateFuncs
                   /\ \A i \in 1..Len(written.args) :
                          ~ContainsAggregateCall(written.args[i])
                THEN "AggregateFunctionCall" ELSE "FunctionCall"
         /\ Len(compiled.args) = Len(written.args)
         /\ \A i \in 1..Len(written.args) :
                OnlyInnermostAggregate(written.args[i], compiled.args[i])
    ELSE compiled.kind \in {"Literal", "ColumnRef"}

\* C30: in every expression tree of a compiled Select, no aggregate-call
\* node has an aggregate-call node among its descendants; of the calls
\* written in a select field, only a call of an aggregate function with no
\* aggregate call in its arguments is an aggregate-call node, and every
\* aggregate function that encloses one is an ordinary call node.
C30_NoNestedAggregateCall ==
    Succeeded =>
        /\ \A expr \in SelectExprs(result) : NoNestedAggregateCall(expr)
        /\ \A i \in 1..Len(ExpandedFields.val) :
               OnlyInnermostAggregate(ExpandedFields.val[i].expr,
                                      result.select_fields[i].expr)

\* SELECT SUM(value + MAX(value)) AS foo FROM table1: MAX is the
\* aggregate-call node, the sum around it an ordinary call
C30_Witness ==
    /\ Succeeded
    /\ select.select_fields =
           <<AstSelectField(
                 Sum(BinaryOperator("+", Col("value"),
                         AstFunctionCall("max", <<Col("value")>>))),
                 <<"foo">>)>>
    /\ result.select_fields[1].expr.kind = "FunctionCall"
    /\ result.select_fields[1].expr.args[1].args[2].kind
           = "AggregateFunctionCall"
====
